---- MODULE Spec2Model ----
(***************************************************************************)
(* A model of the maia command-line client (pkg/cmd/client.go) and of the  *)
(* Prometheus storage client it drives (pkg/storage/prometheus.go).        *)
(*                                                                         *)
(* The package-level variables of package cmd are the state.  fetchToken,  *)
(* storageInstance and checkResponse are operators computed the way the    *)
(* code computes them; a panic is an outcome that keeps every assignment   *)
(* made before it.  The specifications share the variables:                *)
(*   SpecAuth    one fetchToken call on every combination of credentials   *)
(*   Spec        commands run one after another in one process             *)
(*   SpecCheck   checkResponse on every kind of response                   *)
(*   SpecTime    the time range and the step of a range query              *)
(*   SpecRender  the printers, alone and through their commands            *)
(*   SpecRange   range queries rendered as tables                          *)
(*   SpecStorage the storage client under the viper settings               *)
(***************************************************************************)
EXTENDS Integers, Sequences, FiniteSets, TLC

VARIABLES
    auth,               \* gophercloud.AuthOptions (client.go:37)
    authType,           \* --os-auth-type (client.go:38)
    scopedDomain,       \* --os-domain-name (client.go:39)
    maiaURL,            \* --maia-url (client.go:35)
    promURL,            \* --prometheus-url (client.go:763)
    useGlobalKeystone,  \* --global (client.go:170)
    env,                \* the process environment read by fetchToken
    storageDriver,      \* the memoized driver: <<>> is nil, <<d>> is set (client.go:48)
    starttime,          \* --start (client.go:44)
    endtime,            \* --end (client.go:44)
    last,               \* the last fetchToken call: <<>> or <<[entry, res]>>
    run,                \* the last command run: <<>> or <<record>>
    nCommands,          \* commands run so far in this process
    authCount,          \* Authenticate invocations so far in this process
    driversBuilt,       \* NewPrometheusDriver invocations so far in this process
    resp,               \* the response handed to checkResponse (SpecCheck)
    checked,            \* the outcome of checkResponse: <<>> or <<record>>
    timestamp,          \* --time (client.go:44)
    timeout,            \* --timeout, in milliseconds (client.go:45)
    stepsize,           \* --step, in milliseconds (client.go:45)
    outputFormat,       \* --format (client.go:40)
    jsonTemplate,       \* --template (client.go:41)
    columns,            \* --columns (client.go:42)
    separator,          \* --separator (client.go:43)
    timed,              \* the outcome of the time computations: <<>> or <<record>>
    printed,            \* the outcome of a printer: <<>> or <<record>>
    viper,              \* the settings maia.proxy and maia.federate_url (prometheus.go:41, 53)
    client              \* the storage client constructed: <<>> or <<record>> (SpecStorage)

\* the flags of the query command, the flags of the printers, and the outcomes
\* kept for the time computations and the printers
queryFlags == <<timestamp, timeout, stepsize>>
renderFlags == <<outputFormat, jsonTemplate, columns, separator>>
outcomes == <<timed, printed>>
storage == <<viper, client>>

vars == <<auth, authType, scopedDomain, maiaURL, promURL, useGlobalKeystone, env,
          storageDriver, starttime, endtime, last, run, nCommands, authCount,
          driversBuilt, resp, checked, queryFlags, renderFlags, outcomes,
          storage>>

(***************************************************************************)
(* Values                                                                  *)
(***************************************************************************)

\* a nil pointer and a pointer to v
Nil == <<>>
Ptr(v) == <<v>>

\* viper with neither maia.proxy nor maia.federate_url set
NoViper == [proxy |-> Nil, federate_url |-> Nil]

\* the flag defaults that stand for an environment variable (client.go:743,751,755)
PlaceholderPassword == "$OS_PASSWORD"
PlaceholderToken == "$OS_TOKEN"
PlaceholderSecret == "$OS_APPLICATION_CREDENTIAL_SECRET"

\* the errors fetchToken panics with
ErrNoPassword == "you must specify --os-password"
ErrNoUser == "you must specify --os-username or --os-user-id"
ErrNoToken == "you must specify --os-token"
ErrNoSecret == "you must specify --os-application-credential-secret"
ErrNoUserForName == "you must specify --os-username or --os-user-id when using --os-application-credential-name"
ErrUserAmbiguous == "use either --os-user-id or --os-user-name but not both"
ErrDomainAmbiguous == "use either --os-user-domain-id or --os-user-domain-name but not both"
ErrUserIDWithDomain == "do not specify --os-user-domain-id or --os-user-domain-name when using --os-user-id since the user ID implies the domain"
\* the Go runtime's panic on auth.Scope.DomainName = ... with auth.Scope == nil
ErrNilDeref == "runtime error: invalid memory address or nil pointer dereference"
\* the error storageInstance panics with
ErrNoBackend == "either --os-auth-url or --prometheus-url need to be specified"

MissingFieldErrors == {ErrNoPassword, ErrNoUser, ErrNoToken, ErrNoSecret, ErrNoUserForName}
AmbiguityErrors == {ErrUserAmbiguous, ErrDomainAmbiguous, ErrUserIDWithDomain}
ValidationErrors == MissingFieldErrors \cup AmbiguityErrors

\* the package variables fetchToken and storageInstance read and write, as one value
Globals == [auth |-> auth, authType |-> authType, scopedDomain |-> scopedDomain,
            maiaURL |-> maiaURL, env |-> env, promURL |-> promURL,
            useGlobalKeystone |-> useGlobalKeystone, storageDriver |-> storageDriver]

(***************************************************************************)
(* fetchToken (client.go:59-160)                                           *)
(***************************************************************************)

\* client.go:60-62; the caller has checked that auth.Scope is not nil
setScopedDomain(g) ==
    IF g.scopedDomain # ""
    THEN [g EXCEPT !.auth.Scope = Ptr([g.auth.Scope[1] EXCEPT !.DomainName = g.scopedDomain])]
    ELSE g

\* client.go:65-73
expandDefaults(g) ==
    [g EXCEPT
        !.auth.Password =
            IF @ = PlaceholderPassword THEN g.env.OS_PASSWORD ELSE @,
        !.auth.TokenID =
            IF @ = PlaceholderToken THEN g.env.OS_TOKEN ELSE @,
        !.auth.ApplicationCredentialSecret =
            IF @ = PlaceholderSecret THEN g.env.OS_APPLICATION_CREDENTIAL_SECRET ELSE @]

\* client.go:77
fastPath(g) == g.auth.TokenID # "" /\ g.maiaURL # ""

\* a variant of defaultAuthType that leaves an empty auth type empty
defaultAuthTypeNone(g) == g

\* client.go:82-85
defaultAuthType(g) == IF g.authType = "" THEN [g EXCEPT !.authType = "password"] ELSE g

\* a variant of checkMandatory without the check of line 122
checkMandatoryNoNameCheck(g) ==
    CASE g.authType = "password" ->
            IF g.auth.Password = "" THEN ErrNoPassword
            ELSE IF g.auth.Username = "" /\ g.auth.UserID = "" THEN ErrNoUser
            ELSE ""
      [] g.authType = "token" ->
            IF g.auth.TokenID = "" THEN ErrNoToken ELSE ""
      [] g.authType = "v3applicationcredential" ->
            IF g.auth.ApplicationCredentialSecret = "" THEN ErrNoSecret ELSE ""
      [] OTHER -> ""

\* client.go:89-137, the "check mandatory stuff" parts: "" or the error panicked with
checkMandatory(g) ==
    CASE g.authType = "password" ->
            IF g.auth.Password = "" THEN ErrNoPassword
            ELSE IF g.auth.Username = "" /\ g.auth.UserID = "" THEN ErrNoUser
            ELSE ""
      [] g.authType = "token" ->
            IF g.auth.TokenID = "" THEN ErrNoToken ELSE ""
      [] g.authType = "v3applicationcredential" ->
            IF g.auth.ApplicationCredentialSecret = "" THEN ErrNoSecret
            ELSE IF g.auth.ApplicationCredentialName # ""
                    /\ g.auth.Username = "" /\ g.auth.UserID = "" THEN ErrNoUserForName
            ELSE ""
      [] OTHER -> ""

\* a variant of ignoreUnrelated whose token case leaves the user's domain in place
ignoreUnrelatedKeepsDomain(g) ==
    CASE g.authType = "password" ->
            [g EXCEPT !.auth.TokenID = "",
                      !.auth.ApplicationCredentialName = "",
                      !.auth.ApplicationCredentialID = "",
                      !.auth.ApplicationCredentialSecret = ""]
      [] g.authType = "token" ->
            [g EXCEPT !.auth.Password = "",
                      !.auth.UserID = "",
                      !.auth.Username = "",
                      !.auth.ApplicationCredentialName = "",
                      !.auth.ApplicationCredentialID = "",
                      !.auth.ApplicationCredentialSecret = ""]
      [] g.authType = "v3applicationcredential" ->
            LET h == IF g.auth.ApplicationCredentialID # ""
                     THEN [g EXCEPT !.auth.UserID = "",
                                    !.auth.Username = "",
                                    !.auth.DomainID = "",
                                    !.auth.DomainName = ""]
                     ELSE g
            IN [h EXCEPT !.auth.Password = "",
                         !.auth.TokenID = "",
                         !.auth.Scope = Nil]
      [] OTHER -> g

\* client.go:89-137, the "ignore ..." parts; the switch has no default case
ignoreUnrelated(g) ==
    CASE g.authType = "password" ->
            [g EXCEPT !.auth.TokenID = "",
                      !.auth.ApplicationCredentialName = "",
                      !.auth.ApplicationCredentialID = "",
                      !.auth.ApplicationCredentialSecret = ""]
      [] g.authType = "token" ->
            [g EXCEPT !.auth.Password = "",
                      !.auth.UserID = "",
                      !.auth.Username = "",
                      !.auth.DomainID = "",
                      !.auth.DomainName = "",
                      !.auth.ApplicationCredentialName = "",
                      !.auth.ApplicationCredentialID = "",
                      !.auth.ApplicationCredentialSecret = ""]
      [] g.authType = "v3applicationcredential" ->
            LET h == IF g.auth.ApplicationCredentialID # ""
                     THEN [g EXCEPT !.auth.UserID = "",
                                    !.auth.Username = "",
                                    !.auth.DomainID = "",
                                    !.auth.DomainName = ""]
                     ELSE g
            IN [h EXCEPT !.auth.Password = "",
                         !.auth.TokenID = "",
                         !.auth.Scope = Nil]
      [] OTHER -> g

\* a variant of checkAmbiguous without the check of line 140
checkAmbiguousNoUser(g) ==
    IF g.auth.DomainID # "" /\ g.auth.DomainName # "" THEN ErrDomainAmbiguous
    ELSE IF g.auth.UserID # "" /\ (g.auth.DomainID # "" \/ g.auth.DomainName # "")
         THEN ErrUserIDWithDomain
    ELSE ""

\* client.go:139-148: "" or the error panicked with
checkAmbiguous(g) ==
    IF g.auth.UserID # "" /\ g.auth.Username # "" THEN ErrUserAmbiguous
    ELSE IF g.auth.DomainID # "" /\ g.auth.DomainName # "" THEN ErrDomainAmbiguous
    ELSE IF g.auth.UserID # "" /\ (g.auth.DomainID # "" \/ g.auth.DomainName # "")
         THEN ErrUserIDWithDomain
    ELSE ""

\* a variant of keepToken that always takes the URL of the catalog
keepTokenAndURL(g, ks) ==
    [g EXCEPT !.auth.TokenID = ks.token, !.maiaURL = ks.url]

\* client.go:155-159, with ks = the (token, url) Authenticate returned
keepToken(g, ks) ==
    [g EXCEPT !.auth.TokenID = ks.token,
              !.maiaURL = IF @ = "" THEN ks.url ELSE @]

\* What a fetchToken call leaves behind: the package variables, how it ended
\* ("skipped": the return of line 78; "panic": a panic before Authenticate;
\* "authfailed": the panic of line 153; "authenticated": the normal end),
\* the error panicked with, and the options Authenticate was called with.
Outcome(g, how, err, options) == [g |-> g, outcome |-> how, err |-> err, options |-> options]

\* a variant of resolve that authenticates before the ambiguity checks
resolveAuthenticatesFirst(g, ks) ==
    LET missing == checkMandatory(g) IN
    IF missing # "" THEN Outcome(g, "panic", missing, Nil)
    ELSE LET g1 == ignoreUnrelated(g)
             ambiguous == checkAmbiguous(g1)
         IN IF ks.err # "" THEN Outcome(g1, "authfailed", ks.err, Ptr(g1.auth))
            ELSE IF ambiguous # "" THEN Outcome(g1, "panic", ambiguous, Ptr(g1.auth))
            ELSE Outcome(keepToken(g1, ks), "authenticated", "", Ptr(g1.auth))

\* client.go:87-160: from the switch to the end
resolve(g, ks) ==
    LET missing == checkMandatory(g) IN
    IF missing # "" THEN Outcome(g, "panic", missing, Nil)
    ELSE LET g1 == ignoreUnrelated(g)
             ambiguous == checkAmbiguous(g1)
         IN IF ambiguous # "" THEN Outcome(g1, "panic", ambiguous, Nil)
            ELSE IF ks.err # "" THEN Outcome(g1, "authfailed", ks.err, Ptr(g1.auth))
            ELSE Outcome(keepToken(g1, ks), "authenticated", "", Ptr(g1.auth))

\* a variant of fetchToken that defaults the auth type before the test of line 77
fetchTokenDefaultsFirst(g, ks) ==
    IF g.scopedDomain # "" /\ g.auth.Scope = Nil
    THEN Outcome(g, "panic", ErrNilDeref, Nil)
    ELSE LET g1 == defaultAuthType(expandDefaults(setScopedDomain(g))) IN
         IF fastPath(g1) THEN Outcome(g1, "skipped", "", Nil)
         ELSE resolve(g1, ks)

\* client.go:59-160; ks is what keystoneInstance().Authenticate returns if called
fetchToken(g, ks) ==
    IF g.scopedDomain # "" /\ g.auth.Scope = Nil
    THEN Outcome(g, "panic", ErrNilDeref, Nil)
    ELSE LET g1 == expandDefaults(setScopedDomain(g)) IN
         IF fastPath(g1) THEN Outcome(g1, "skipped", "", Nil)
         ELSE resolve(defaultAuthType(g1), ks)

(***************************************************************************)
(* The identity provider: keystone.Driver.Authenticate (interface.go:91)   *)
(* returns a policy context, the Maia endpoint of the catalog and an error.*)
(***************************************************************************)
KsOK == [err |-> "", token |-> "token-from-keystone", url |-> "http://maia-catalog:9091"]
\* a context without a "token" entry and the endpoint of the mock of Test_Auth
\* (client_test.go: authentication)
KsBare == [err |-> "", token |-> "", url |-> "http://localhost:9091"]
KsFail == [err |-> "authentication failed", token |-> "", url |-> ""]
KsResponses == {KsOK, KsBare, KsFail}

(***************************************************************************)
(* SpecAuth: fetchToken called once, as Test_Auth's authentication() does, *)
(* on every combination of credential inputs.                              *)
(***************************************************************************)
AuthTypes == {"", "password", "token", "v3applicationcredential", "v2password"}

NewScope == [ProjectID |-> "12345", ProjectName |-> "", DomainID |-> "", DomainName |-> ""]

NoEnv == [OS_PASSWORD |-> "", OS_TOKEN |-> "", OS_APPLICATION_CREDENTIAL_SECRET |-> ""]

\* the values of a flag whose default is a placeholder, with the environment
\* variable behind it; a variable whose placeholder is not used is never read
\* and is left unset
FlagWithEnv(placeholder, value) ==
    {<<"", "">>, <<value, "">>, <<placeholder, "">>, <<placeholder, value>>}

InitCommon ==
    /\ storageDriver = Nil
    /\ last = <<>>
    /\ run = <<>>
    /\ nCommands = 0
    /\ authCount = 0
    /\ driversBuilt = 0
    /\ resp = <<>>
    /\ checked = <<>>
    /\ timed = <<>>
    /\ printed = <<>>
    /\ viper = NoViper
    /\ client = <<>>

\* the defaults of the flags of the query command (client.go:773-775)
InitQueryFlags ==
    /\ timestamp = ""
    /\ timeout = 0
    /\ stepsize = 0

\* the defaults of the flags of the printers (client.go:757-760)
InitRenderFlags ==
    /\ outputFormat = ""
    /\ jsonTemplate = ""
    /\ columns = ""
    /\ separator = " "

InitAuth ==
    /\ InitCommon
    /\ InitQueryFlags
    /\ InitRenderFlags
    /\ starttime = ""
    /\ endtime = ""
    /\ authType \in AuthTypes
    /\ scopedDomain \in {"", "scoped-domain"}
    /\ maiaURL \in {"", "http://maia:9091"}
    /\ promURL = ""
    /\ useGlobalKeystone = FALSE
    /\ \E pw \in FlagWithEnv(PlaceholderPassword, "testwd"),
          tk \in FlagWithEnv(PlaceholderToken, "ABC"),
          se \in FlagWithEnv(PlaceholderSecret, "testappcredsecret") :
        /\ env = [OS_PASSWORD |-> pw[2], OS_TOKEN |-> tk[2],
                  OS_APPLICATION_CREDENTIAL_SECRET |-> se[2]]
        /\ \E un \in {"", "testname"}, ui \in {"", "testid"},
              dn \in {"", "domainname"}, di \in {"", "domainid"},
              an \in {"", "testappcredname"}, ai \in {"", "testappcredid"} :
            auth = [IdentityEndpoint |-> "http://keystone:5000/v3",
                    Username |-> un, UserID |-> ui, Password |-> pw[1],
                    DomainID |-> di, DomainName |-> dn, TokenID |-> tk[1],
                    ApplicationCredentialID |-> ai,
                    ApplicationCredentialName |-> an,
                    ApplicationCredentialSecret |-> se[1],
                    Scope |-> Ptr(NewScope)]

\* one call of fetchToken(ctx), the panic recovered as authentication() does
FetchToken ==
    /\ last = <<>>
    /\ \E ks \in KsResponses :
        LET res == fetchToken(Globals, ks) IN
        /\ auth' = res.g.auth
        /\ authType' = res.g.authType
        /\ maiaURL' = res.g.maiaURL
        /\ last' = <<[entry |-> Globals, res |-> res, ks |-> ks]>>
        /\ authCount' = authCount + Len(res.options)
    /\ UNCHANGED <<scopedDomain, promURL, useGlobalKeystone, env, storageDriver,
                   starttime, endtime, run, nCommands, driversBuilt, resp, checked,
                   queryFlags, renderFlags, outcomes,
                   storage>>

NextAuth == FetchToken

SpecAuth == InitAuth /\ [][NextAuth]_vars

(***************************************************************************)
(* Claims about fetchToken, checked under SpecAuth                         *)
(***************************************************************************)

\* what the claims read of the observed call
Entry == last[1].entry
Res == last[1].res
EntryToken == IF Entry.auth.TokenID = PlaceholderToken THEN Entry.env.OS_TOKEN
              ELSE Entry.auth.TokenID
EntryPassword == IF Entry.auth.Password = PlaceholderPassword THEN Entry.env.OS_PASSWORD
                 ELSE Entry.auth.Password
EntrySecret == IF Entry.auth.ApplicationCredentialSecret = PlaceholderSecret
               THEN Entry.env.OS_APPLICATION_CREDENTIAL_SECRET
               ELSE Entry.auth.ApplicationCredentialSecret
EntryFastPath == EntryToken # "" /\ Entry.maiaURL # ""
EntryAuthType == IF Entry.authType = "" THEN "password" ELSE Entry.authType
FailedValidation == Res.outcome = "panic" /\ Res.err \in ValidationErrors /\ Res.options = Nil

PasswordSchemePopulated(o) == o.Password # "" /\ (o.Username # "" \/ o.UserID # "")
TokenSchemePopulated(o) == o.TokenID # ""
AppCredSchemePopulated(o) ==
    /\ o.ApplicationCredentialID # "" \/ o.ApplicationCredentialName # ""
    /\ o.ApplicationCredentialSecret # ""
PasswordSchemeEmpty(o) == o.Password = ""
TokenSchemeEmpty(o) == o.TokenID = ""
AppCredSchemeEmpty(o) ==
    /\ o.ApplicationCredentialID = ""
    /\ o.ApplicationCredentialName = ""
    /\ o.ApplicationCredentialSecret = ""
ExactlyOneScheme(o) ==
    \/ PasswordSchemePopulated(o) /\ TokenSchemeEmpty(o) /\ AppCredSchemeEmpty(o)
    \/ TokenSchemePopulated(o) /\ PasswordSchemeEmpty(o) /\ AppCredSchemeEmpty(o)
    \/ AppCredSchemePopulated(o) /\ PasswordSchemeEmpty(o) /\ TokenSchemeEmpty(o)

\* C1: whenever fetchToken reaches Authenticate, the options it passes have the
\* identifying fields of exactly one scheme populated and the fields of every
\* other scheme empty, for every auth type (empty and unrecognised included).
C1_ExactlyOneSchemePassed ==
    last # <<>> /\ Res.options # Nil => ExactlyOneScheme(Res.options[1])

\* the schemes that pass their mandatory checks and clear the user and domain
\* fields before the ambiguity checks (client.go:105-113 and 119-132)
EntryClearsIdentity ==
    \/ EntryAuthType = "token" /\ EntryToken # ""
    \/ /\ EntryAuthType = "v3applicationcredential"
       /\ EntrySecret # ""
       /\ Entry.auth.ApplicationCredentialID # ""
       /\ \/ Entry.auth.ApplicationCredentialName = ""
          \/ Entry.auth.Username # ""
          \/ Entry.auth.UserID # ""

EntryUserAmbiguous ==
    /\ last # <<>>
    /\ Entry.auth.Username # "" /\ Entry.auth.UserID # ""
    /\ ~EntryFastPath

\* C2 as stated: for every scheme, username and user-id both set on entry (no
\* fast path) make resolution fail with a configuration error, Authenticate
\* not called.
C2_UserAmbiguityAlwaysFails ==
    EntryUserAmbiguous
        /\ EntryAuthType \in {"password", "token", "v3applicationcredential"}
    => FailedValidation

\* C2 amended: username and user-id both set on entry (no fast path) make
\* resolution fail with a configuration error, Authenticate not called, exactly
\* when the scheme does not clear the user fields first: auth type token with a
\* token, and v3applicationcredential with a secret and a credential id, clear
\* them and go on to Authenticate.
C2_UserAmbiguityFailsUnlessCleared ==
    EntryUserAmbiguous =>
        /\ FailedValidation <=> ~EntryClearsIdentity
        /\ EntryClearsIdentity => Res.options # Nil

C2_Witness ==
    /\ EntryUserAmbiguous
    /\ EntryAuthType = "password"
    /\ EntryPassword # ""
    /\ Res.outcome = "panic" /\ Res.err = ErrUserAmbiguous

EntryDomainAmbiguous ==
    /\ last # <<>>
    /\ \/ Entry.auth.DomainID # "" /\ Entry.auth.DomainName # ""
       \/ Entry.auth.UserID # "" /\ (Entry.auth.DomainID # "" \/ Entry.auth.DomainName # "")
    /\ ~EntryFastPath

\* C3 as stated: whatever the scheme, domain-id and domain-name both set, or
\* user-id set with either of them, on entry (no fast path) make resolution
\* fail with a configuration error.
C3_DomainAmbiguityAlwaysFails ==
    EntryDomainAmbiguous => FailedValidation

\* C3 amended: domain-id and domain-name both set, or user-id set with either of
\* them, on entry (no fast path) make resolution fail with a configuration
\* error exactly when the scheme does not clear the user and domain fields
\* first (token with a token; v3applicationcredential with a secret and a
\* credential id, and with a username or user-id if a credential name is
\* given too).
C3_DomainAmbiguityFailsUnlessCleared ==
    EntryDomainAmbiguous =>
        /\ FailedValidation <=> ~EntryClearsIdentity
        /\ EntryClearsIdentity => Res.options # Nil

C3_Witness ==
    /\ EntryDomainAmbiguous
    /\ Entry.auth.Username # "" /\ Entry.auth.UserID = ""
    /\ EntryAuthType = "password"
    /\ Res.outcome = "panic" /\ Res.err = ErrDomainAmbiguous

\* the fields of the three schemes other than the three with placeholders
SchemeFieldsKept(a, b) ==
    /\ a.Username = b.Username
    /\ a.UserID = b.UserID
    /\ a.DomainID = b.DomainID
    /\ a.DomainName = b.DomainName
    /\ a.ApplicationCredentialID = b.ApplicationCredentialID
    /\ a.ApplicationCredentialName = b.ApplicationCredentialName

\* C5 as stated: token and Maia URL both non-empty on entry make fetchToken
\* return without Authenticate and without error, leaving token, Maia URL,
\* auth type and all scheme fields as they were on entry.
C5_FastPathOnEntryValues ==
    last # <<>> /\ Entry.auth.TokenID # "" /\ Entry.maiaURL # "" =>
        /\ Res.outcome = "skipped" /\ Res.err = "" /\ Res.options = Nil
        /\ Res.g.auth.TokenID = Entry.auth.TokenID
        /\ Res.g.auth.Password = Entry.auth.Password
        /\ Res.g.auth.ApplicationCredentialSecret = Entry.auth.ApplicationCredentialSecret
        /\ SchemeFieldsKept(Res.g.auth, Entry.auth)
        /\ Res.g.maiaURL = Entry.maiaURL
        /\ Res.g.authType = Entry.authType

\* C5 amended: with the placeholder defaults of token, password and secret
\* replaced by their environment variables, which fetchToken does first, a
\* non-empty token and a non-empty Maia URL make fetchToken return without
\* Authenticate and without error whatever the auth type and the other fields
\* hold, leaving token, password and secret at their expanded values and Maia
\* URL, auth type and the other scheme fields as they were.
C5_FastPathAfterExpansion ==
    last # <<>> /\ EntryFastPath =>
        /\ Res.outcome = "skipped" /\ Res.err = "" /\ Res.options = Nil
        /\ Res.g.auth.TokenID = EntryToken
        /\ Res.g.auth.Password = EntryPassword
        /\ Res.g.auth.ApplicationCredentialSecret = EntrySecret
        /\ SchemeFieldsKept(Res.g.auth, Entry.auth)
        /\ Res.g.maiaURL = Entry.maiaURL
        /\ Res.g.authType = Entry.authType

C5_Witness ==
    /\ last # <<>> /\ EntryFastPath
    /\ Entry.authType = "" /\ Entry.auth.Password = ""
    /\ Entry.auth.Username # "" /\ Entry.auth.UserID # ""
    /\ Res.outcome = "skipped"

\* the scope on entry with --os-domain-name applied (client.go:60-62)
EntryScope ==
    IF Entry.scopedDomain # ""
    THEN [Entry.auth.Scope[1] EXCEPT !.DomainName = Entry.scopedDomain]
    ELSE Entry.auth.Scope[1]

\* the fields of the user's identity and of the application credential
IdentityCleared(o) ==
    o.Username = "" /\ o.UserID = "" /\ o.DomainID = "" /\ o.DomainName = ""
Passed == Res.options[1]

EntryTokenScheme ==
    /\ last # <<>>
    /\ Entry.authType = "token"
    /\ EntryToken # ""
    /\ ~EntryFastPath

\* C21: with auth type token and a token (no fast path), whatever password,
\* username, user-id, domain and application-credential fields were given,
\* Authenticate is called, with password, identity and application-credential
\* fields empty and with the token and the scope as given.
C21_TokenSchemeClearsOthers ==
    EntryTokenScheme =>
        /\ Res.options # Nil
        /\ Res.outcome \in {"authenticated", "authfailed"}
        /\ Passed.Password = ""
        /\ IdentityCleared(Passed)
        /\ AppCredSchemeEmpty(Passed)
        /\ Passed.TokenID = EntryToken
        /\ Passed.Scope = Ptr(EntryScope)
        /\ Passed.IdentityEndpoint = Entry.auth.IdentityEndpoint

\* Test_Auth's "tokenwithpasswithauthtype", with domains and an application
\* credential given too
C21_Witness ==
    /\ EntryTokenScheme
    /\ Entry.auth.TokenID = "ABC"
    /\ Entry.auth.Username = "testname" /\ Entry.auth.UserID = "testid"
    /\ Entry.auth.Password = "testwd"
    /\ Entry.auth.DomainName # "" /\ Entry.auth.DomainID # ""
    /\ Entry.auth.ApplicationCredentialID # ""
    /\ Entry.scopedDomain # ""
    /\ Res.outcome = "authenticated"
    /\ Passed.TokenID = "ABC" /\ Passed.Scope[1].DomainName = "scoped-domain"

EntryAppCredScheme ==
    /\ last # <<>>
    /\ Entry.authType = "v3applicationcredential"
    /\ ~EntryFastPath

\* C22: with auth type v3applicationcredential (no fast path) a missing secret
\* fails; a credential name with neither username nor user-id fails; when
\* Authenticate is reached it receives an empty password, an empty token and
\* no scope, and, if a credential id was given, empty username, user-id and
\* domain fields.
C22_AppCredScheme ==
    EntryAppCredScheme =>
        /\ EntrySecret = "" => (FailedValidation /\ Res.err = ErrNoSecret)
        /\ (EntrySecret # "" /\ Entry.auth.ApplicationCredentialName # ""
               /\ Entry.auth.Username = "" /\ Entry.auth.UserID = "")
              => (FailedValidation /\ Res.err = ErrNoUserForName)
        /\ Res.options # Nil =>
              /\ Passed.Password = "" /\ Passed.TokenID = "" /\ Passed.Scope = Nil
              /\ Passed.ApplicationCredentialSecret = EntrySecret
              /\ Entry.auth.ApplicationCredentialID # "" => IdentityCleared(Passed)

\* a credential id with a secret, and username, user-id, password and token
\* given too: Authenticate is reached with all of them empty
C22_Witness ==
    /\ EntryAppCredScheme
    /\ Entry.auth.ApplicationCredentialID = "testappcredid"
    /\ Entry.auth.ApplicationCredentialName = ""
    /\ Entry.auth.Username # "" /\ Entry.auth.UserID # ""
    /\ EntryPassword # "" /\ EntryToken # ""
    /\ Res.outcome = "authenticated"
    /\ IdentityCleared(Passed) /\ Passed.Scope = Nil

\* the observed call, had its auth type been password
AsPassword == fetchToken([Entry EXCEPT !.authType = "password"], last[1].ks)

\* C23: with no auth type, fetchToken ends as it does with auth type password
\* on the same fields: the same outcome, the same error, the same options
\* passed to Authenticate and the same credentials and Maia URL left behind;
\* without the fast path a token given is not passed on and username and
\* user-id both set fail.
C23_DefaultIsPassword ==
    (last # <<>> /\ Entry.authType = "") =>
        /\ Res.outcome = AsPassword.outcome
        /\ Res.err = AsPassword.err
        /\ Res.options = AsPassword.options
        /\ Res.g.auth = AsPassword.g.auth
        /\ Res.g.maiaURL = AsPassword.g.maiaURL
        /\ (~EntryFastPath /\ Res.options # Nil) => Passed.TokenID = ""
        /\ EntryUserAmbiguous => FailedValidation

\* Test_Auth's "tokenwithpasswithoutauthtype" without the user-id: the token
\* is dropped and the password is used
C23_Witness ==
    /\ last # <<>> /\ Entry.authType = "" /\ ~EntryFastPath
    /\ Entry.auth.TokenID = "ABC" /\ Entry.auth.Password = "testwd"
    /\ Entry.auth.Username = "testname" /\ Entry.auth.UserID = ""
    /\ Res.outcome = "authenticated"
    /\ Passed.TokenID = "" /\ Passed.Password = "testwd"
    /\ Res.g.authType = "password"

\* C24: after Authenticate succeeded, the token held is the token the
\* identity provider returned, and the Maia URL is the endpoint it returned
\* if none was configured and the configured one otherwise.
C24_TokenAndURLKept ==
    (last # <<>> /\ Res.outcome = "authenticated") =>
        /\ last[1].ks.err = ""
        /\ Res.g.auth.TokenID = last[1].ks.token
        /\ Res.g.maiaURL = IF Entry.maiaURL = "" THEN last[1].ks.url ELSE Entry.maiaURL

\* a Maia URL was configured, no token: Authenticate ran and the URL stayed
C24_Witness ==
    /\ last # <<>> /\ Res.outcome = "authenticated"
    /\ Entry.maiaURL = "http://maia:9091"
    /\ last[1].ks = KsOK
    /\ Res.g.maiaURL = "http://maia:9091"
    /\ Res.g.auth.TokenID = "token-from-keystone"

\* C29 as stated: with auth type v3applicationcredential, a credential id and
\* a secret, validation never fails, whatever credential name, username,
\* user-id and domain fields hold.
C29_CredentialIDNeverFails ==
    (last # <<>> /\ Entry.authType = "v3applicationcredential"
        /\ Entry.auth.ApplicationCredentialID # "" /\ EntrySecret # "")
    => ~FailedValidation

(***************************************************************************)
(* The storage client (pkg/storage/prometheus.go)                          *)
(***************************************************************************)

\* the content types of the storage package (used at client.go:210, 496)
JSON == "application/json"
PlainText == "text/plain"

\* a Go map[string]string is a function on its keys
EmptyMap == [k \in {} |-> ""]
MapPut(mp, key, value) == [k \in DOMAIN mp \cup {key} |-> IF k = key THEN value ELSE mp[k]]

\* url.Parse on the URLs of the model: scheme and host (prometheus.go:185)
urlParse(u) ==
    CASE u = "http://prometheus:9090" -> [Scheme |-> "http", Host |-> "prometheus:9090"]
      [] u = "http://maia:9091" -> [Scheme |-> "http", Host |-> "maia:9091"]
      [] u = "http://maia-catalog:9091" -> [Scheme |-> "http", Host |-> "maia-catalog:9091"]
      [] u = "http://localhost:9091" -> [Scheme |-> "http", Host |-> "localhost:9091"]
      [] OTHER -> [Scheme |-> "", Host |-> ""]

\* prometheus.go:40-62: the HTTP client and the federate URL of a client under
\* the viper settings cfg; the URLs of the settings parse
init(promCli, cfg) ==
    IF cfg.proxy # Nil
    THEN [promCli EXCEPT !.httpClient = Ptr([Proxy |-> cfg.proxy])]
    ELSE [promCli EXCEPT !.httpClient = Ptr([Proxy |-> Nil]),
                         !.federateURL = IF cfg.federate_url # Nil
                                         THEN Ptr(cfg.federate_url[1])
                                         ELSE promCli.url]

\* prometheus.go:27-38 under the viper settings cfg: the fields of the client,
\* a pointer being <<>> when nil
prometheusStorageClient(prometheusAPIURL, customHeaders, cfg) ==
    init([httpClient |-> Nil, url |-> Ptr(prometheusAPIURL), federateURL |-> Nil,
          customHeaders |-> customHeaders], cfg)

\* prometheus.go:27-38 for the command-line client, which sets neither
\* maia.proxy nor maia.federate_url
Prometheus(prometheusAPIURL, customHeaders) ==
    prometheusStorageClient(prometheusAPIURL, customHeaders, NoViper)

\* the run-time panic of dereferencing a nil pointer
ErrNilPointer == "runtime error: invalid memory address or nil pointer dereference"

\* storage.NewPrometheusDriver (client.go:173, 182) with the "prometheus"
\* storage driver configured, as TestStorageDriverWithGlobalFlag sets it
NewPrometheusDriver(prometheusAPIURL, customHeaders) ==
    Prometheus(prometheusAPIURL, customHeaders)

\* prometheus.go:184-201, on a URL buildURL made: its scheme and host are those
\* of its base URL
isValidURL(u) ==
    LET parsedURL == urlParse(u.base) IN
    /\ parsedURL.Scheme \in {"http", "https"}
    /\ parsedURL.Host # ""

\* a variant of requestHeaders without the loop of lines 166-168
requestHeadersOfCallOnly(customHeaders, headers) ==
    [k \in DOMAIN headers |-> <<headers[k]>>]

\* prometheus.go:166-171: req.Header.Add of every custom header, then of every
\* header of the call; a header holds the list of the values added
requestHeaders(customHeaders, headers) ==
    [k \in DOMAIN customHeaders \cup DOMAIN headers |->
        (IF k \in DOMAIN customHeaders THEN <<customHeaders[k]>> ELSE <<>>)
        \o (IF k \in DOMAIN headers THEN <<headers[k]>> ELSE <<>>)]

\* http.Header.Get: the first value, "" if there is none
HeaderGet(h, key) == IF key \in DOMAIN h /\ h[key] # <<>> THEN h[key][1] ELSE ""

\* What the backend does with a request that is sent: httpClient.Do fails, or a
\* response arrives (prometheus.go:175-180)
TransportFailure == [err |-> "connection refused", response |-> Nil]
Response(code, status, contentType, body) ==
    [err |-> "",
     response |-> Ptr([StatusCode |-> code, Status |-> status,
                       ContentType |-> contentType, Body |-> body, readErr |-> ""])]

(***************************************************************************)
(* storageInstance (client.go:162-189)                                     *)
(***************************************************************************)

\* client.go:169-172
directHeaders(g) ==
    IF g.useGlobalKeystone THEN MapPut(EmptyMap, "X-Global-Region", "true") ELSE EmptyMap

\* client.go:178-181
maiaHeaders(g) ==
    LET headers == MapPut(EmptyMap, "X-Auth-Token", g.auth.TokenID) IN
    IF g.useGlobalKeystone THEN MapPut(headers, "X-Global-Region", "true") ELSE headers

\* What a storageInstance call leaves behind: the package variables, the error
\* panicked with ("" if it returned), the branch taken, the fetchToken call
\* made, if any, and whether a driver was built.
Instance(g, err, branch, fetch, built) ==
    [g |-> g, err |-> err, branch |-> branch, fetch |-> fetch, built |-> built]

\* a variant of storageInstance without the test of line 165
storageInstanceNoMemo(g, ks) ==
    IF g.promURL # ""
    THEN Instance([g EXCEPT !.storageDriver =
                       Ptr(NewPrometheusDriver(g.promURL, directHeaders(g)))],
                  "", "direct", Nil, 1)
    ELSE IF g.auth.IdentityEndpoint # ""
    THEN LET f == fetchToken(g, ks) IN
         IF f.outcome \in {"panic", "authfailed"}
         THEN Instance(f.g, f.err, "maia", Ptr(f), 0)
         ELSE Instance([f.g EXCEPT !.storageDriver =
                            Ptr(NewPrometheusDriver(f.g.maiaURL, maiaHeaders(f.g)))],
                       "", "maia", Ptr(f), 1)
    ELSE Instance(g, ErrNoBackend, "none", Nil, 0)

\* a variant of storageInstance that looks at the identity endpoint first
storageInstanceAuthFirst(g, ks) ==
    IF g.storageDriver # Nil THEN Instance(g, "", "memoized", Nil, 0)
    ELSE IF g.auth.IdentityEndpoint # ""
    THEN LET f == fetchToken(g, ks) IN
         IF f.outcome \in {"panic", "authfailed"}
         THEN Instance(f.g, f.err, "maia", Ptr(f), 0)
         ELSE Instance([f.g EXCEPT !.storageDriver =
                            Ptr(NewPrometheusDriver(f.g.maiaURL, maiaHeaders(f.g)))],
                       "", "maia", Ptr(f), 1)
    ELSE IF g.promURL # ""
    THEN Instance([g EXCEPT !.storageDriver =
                       Ptr(NewPrometheusDriver(g.promURL, directHeaders(g)))],
                  "", "direct", Nil, 1)
    ELSE Instance(g, ErrNoBackend, "none", Nil, 0)

\* a variant of storageInstance that builds the driver whatever fetchToken did
storageInstanceKeepsDriver(g, ks) ==
    IF g.storageDriver # Nil THEN Instance(g, "", "memoized", Nil, 0)
    ELSE IF g.promURL # ""
    THEN Instance([g EXCEPT !.storageDriver =
                       Ptr(NewPrometheusDriver(g.promURL, directHeaders(g)))],
                  "", "direct", Nil, 1)
    ELSE IF g.auth.IdentityEndpoint # ""
    THEN LET f == fetchToken(g, ks) IN
         Instance([f.g EXCEPT !.storageDriver =
                       Ptr(NewPrometheusDriver(f.g.maiaURL, maiaHeaders(f.g)))],
                  IF f.outcome \in {"panic", "authfailed"} THEN f.err ELSE "",
                  "maia", Ptr(f), 1)
    ELSE Instance(g, ErrNoBackend, "none", Nil, 0)

\* client.go:162-189; ks is what Authenticate returns if called
storageInstance(g, ks) ==
    IF g.storageDriver # Nil THEN Instance(g, "", "memoized", Nil, 0)
    ELSE IF g.promURL # ""
    THEN Instance([g EXCEPT !.storageDriver =
                       Ptr(NewPrometheusDriver(g.promURL, directHeaders(g)))],
                  "", "direct", Nil, 1)
    ELSE IF g.auth.IdentityEndpoint # ""
    THEN LET f == fetchToken(g, ks) IN
         IF f.outcome \in {"panic", "authfailed"}
         THEN Instance(f.g, f.err, "maia", Ptr(f), 0)
         ELSE Instance([f.g EXCEPT !.storageDriver =
                            Ptr(NewPrometheusDriver(f.g.maiaURL, maiaHeaders(f.g)))],
                       "", "maia", Ptr(f), 1)
    ELSE Instance(g, ErrNoBackend, "none", Nil, 0)

(***************************************************************************)
(* checkResponse (client.go:652-683)                                       *)
(***************************************************************************)

\* strconv of a status code, as fmt's %d prints it
Itoa(n) == ToString(n)

\* a variant of serviceUnavailable that echoes the body only with the global flag
serviceUnavailableGlobalOnly(response, global) ==
    IF response.readErr # ""
    THEN IF global
         THEN "global keystone backend unavailable (HTTP " \o ToString(response.StatusCode)
              \o ") - failed to read response body: " \o response.readErr
         ELSE "service unavailable (HTTP " \o ToString(response.StatusCode)
              \o ") - failed to read response body: " \o response.readErr
    ELSE IF Len(response.Body) > 0
    THEN IF global
         THEN "global keystone backend unavailable: " \o response.Body
         ELSE "server failed with status: " \o response.Status
              \o " (" \o ToString(response.StatusCode) \o ")"
    ELSE IF global
    THEN "global keystone backend unavailable (HTTP " \o ToString(response.StatusCode) \o ")"
    ELSE "service unavailable (HTTP " \o ToString(response.StatusCode) \o ")"

\* client.go:657-680: the error panicked with for a 503 response
serviceUnavailable(response, global) ==
    IF response.readErr # ""
    THEN IF global
         THEN "global keystone backend unavailable (HTTP " \o Itoa(response.StatusCode)
              \o ") - failed to read response body: " \o response.readErr
         ELSE "service unavailable (HTTP " \o Itoa(response.StatusCode)
              \o ") - failed to read response body: " \o response.readErr
    ELSE IF Len(response.Body) > 0
    THEN IF global
         THEN "global keystone backend unavailable: " \o response.Body
         ELSE "service unavailable: " \o response.Body
    ELSE IF global
    THEN "global keystone backend unavailable (HTTP " \o Itoa(response.StatusCode) \o ")"
    ELSE "service unavailable (HTTP " \o Itoa(response.StatusCode) \o ")"

\* client.go:681
serverFailed(response) ==
    "server failed with status: " \o response.Status
    \o " (" \o Itoa(response.StatusCode) \o ")"

\* a variant of checkResponse that narrates every 5xx status as it does 503
checkResponseEveryServerError(err, response, global) ==
    IF err # "" THEN err
    ELSE IF response[1].StatusCode # 200
    THEN IF response[1].StatusCode >= 500
         THEN serviceUnavailable(response[1], global)
         ELSE serverFailed(response[1])
    ELSE ""

\* client.go:653-683: "" if checkResponse returns, else the error it panics with
checkResponse(err, response, global) ==
    IF err # "" THEN err
    ELSE IF response[1].StatusCode # 200
    THEN IF response[1].StatusCode = 503
         THEN serviceUnavailable(response[1], global)
         ELSE serverFailed(response[1])
    ELSE ""

(***************************************************************************)
(* SpecCheck: checkResponse on every kind of response, as                  *)
(* TestGlobalFlagHTTP503ErrorHandling calls it.                            *)
(***************************************************************************)

\* http.StatusText of the status codes of the model
StatusText(code) ==
    CASE code = 200 -> "OK"
      [] code = 401 -> "Unauthorized"
      [] code = 404 -> "Not Found"
      [] code = 500 -> "Internal Server Error"
      [] code = 502 -> "Bad Gateway"
      [] code = 503 -> "Service Unavailable"

StatusCodes == {200, 401, 404, 500, 502, 503}
Bodies == {"", "global keystone not configured", "service unavailable", "internal error"}
ReadErrors == {"", "unexpected EOF"}

\* the (err, resp) pairs a driver call can hand to checkResponse
CheckInputs ==
    {[err |-> "connection refused", response |-> Nil]}
    \cup {[err |-> "",
           response |-> Ptr([StatusCode |-> code,
                             Status |-> Itoa(code) \o " " \o StatusText(code),
                             Body |-> body, readErr |-> readErr])] :
            code \in StatusCodes, body \in Bodies, readErr \in ReadErrors}

DefaultAuth ==
    [IdentityEndpoint |-> "", Username |-> "username", UserID |-> "",
     Password |-> "testwd", DomainID |-> "", DomainName |-> "domainname",
     TokenID |-> "", ApplicationCredentialID |-> "",
     ApplicationCredentialName |-> "", ApplicationCredentialSecret |-> "",
     Scope |-> Ptr(NewScope)]

InitCheck ==
    /\ InitCommon
    /\ InitQueryFlags
    /\ InitRenderFlags
    /\ resp = <<>>
    /\ auth = DefaultAuth
    /\ authType = ""
    /\ scopedDomain = ""
    /\ maiaURL = ""
    /\ promURL = ""
    /\ env = NoEnv
    /\ starttime = ""
    /\ endtime = ""
    /\ useGlobalKeystone \in BOOLEAN

\* the test server's answer arrives
Respond ==
    /\ resp = <<>>
    /\ \E in \in CheckInputs : resp' = <<in>>
    /\ UNCHANGED <<auth, authType, scopedDomain, maiaURL, promURL, useGlobalKeystone,
                   env, storageDriver, starttime, endtime, last, run, nCommands,
                   authCount, driversBuilt, checked,
                   queryFlags, renderFlags, outcomes,
                   storage>>

\* checkResponse(err, resp), the panic recovered as the test does
CheckResponse ==
    /\ resp # <<>>
    /\ checked = <<>>
    /\ checked' = <<[panic |-> checkResponse(resp[1].err, resp[1].response,
                                              useGlobalKeystone)]>>
    /\ UNCHANGED <<auth, authType, scopedDomain, maiaURL, promURL, useGlobalKeystone,
                   env, storageDriver, starttime, endtime, last, run, nCommands,
                   authCount, driversBuilt, resp,
                   queryFlags, renderFlags, outcomes,
                   storage>>

NextCheck == Respond \/ CheckResponse

SpecCheck == InitCheck /\ [][NextCheck]_vars

(***************************************************************************)
(* Claims about checkResponse, checked under SpecCheck                     *)
(***************************************************************************)

Checked503 ==
    /\ checked # <<>>
    /\ resp[1].err = ""
    /\ resp[1].response[1].StatusCode = 503
CheckedBody == resp[1].response[1].Body
CheckedReadErr == resp[1].response[1].readErr
CheckedPanic == checked[1].panic
Narrative ==
    IF useGlobalKeystone THEN "global keystone backend unavailable"
    ELSE "service unavailable"

\* C9: a 503 response with a non-empty body and the global flag unset fails with
\* the generic "server failed with status: 503 Service Unavailable (503)" and
\* does not echo the body; with the global flag set the body is echoed.
C9_GenericMessageWithoutGlobal ==
    Checked503 /\ CheckedBody # "" /\ CheckedReadErr = "" =>
        IF useGlobalKeystone
        THEN CheckedPanic = "global keystone backend unavailable: " \o CheckedBody
        ELSE CheckedPanic = "server failed with status: 503 Service Unavailable (503)"

\* C10: every 503 response fails with a message of the global-backend narrative
\* exactly when the global flag is set, else of the "service unavailable"
\* narrative; the message holds the body exactly when the body is non-empty and
\* cites only the status code when it is empty; a body-read failure is narrated
\* instead, under the same narrative.
C10_ServiceUnavailableNarrative ==
    Checked503 =>
        CheckedPanic =
            Narrative \o
            (IF CheckedReadErr # ""
             THEN " (HTTP 503) - failed to read response body: " \o CheckedReadErr
             ELSE IF CheckedBody # "" THEN ": " \o CheckedBody
             ELSE " (HTTP 503)")

C10_Witness ==
    /\ Checked503
    /\ ~useGlobalKeystone
    /\ CheckedBody = "service unavailable" /\ CheckedReadErr = ""
    /\ CheckedPanic = "service unavailable: service unavailable"

CheckedErr == resp[1].err
CheckedCode == resp[1].response[1].StatusCode
CheckedStatus == resp[1].response[1].Status

\* C11: checkResponse passes if and only if the transport error is nil and the
\* status is 200; for every status other than 200 and 503 it fails with
\* "server failed with status: <status text> (<code>)", whatever the global
\* flag and the response body hold.
C11_PassIffOK ==
    checked # <<>> =>
        /\ (CheckedPanic = "") = (CheckedErr = "" /\ CheckedCode = 200)
        /\ (CheckedErr = "" /\ CheckedCode \notin {200, 503}) =>
              CheckedPanic = "server failed with status: " \o CheckedStatus
                             \o " (" \o ToString(CheckedCode) \o ")"

\* a 500 with a body and the global flag set failed with the generic message
C11_Witness ==
    /\ checked # <<>> /\ CheckedErr = ""
    /\ useGlobalKeystone
    /\ CheckedCode = 500 /\ CheckedBody = "internal error"
    /\ CheckedPanic = "server failed with status: 500 Internal Server Error (500)"

(***************************************************************************)
(* Time (client.go:558-576, 609-626)                                       *)
(***************************************************************************)

\* An instant is a day, counted from 2017-07-13, and a second of that day.  A
\* span of whole seconds has the same shape; its value is day * 86400 + sec.
SecondsPerDay == 24 * 3600
Wide(day, sec) == [day |-> day + (sec \div SecondsPerDay), sec |-> sec % SecondsPerDay]
WideOf(seconds) == Wide(0, seconds)
WideNeg(w) == Wide(0 - w.day, 0 - w.sec)
WideLess(v, w) == v.day < w.day \/ (v.day = w.day /\ v.sec < w.sec)
WideTimes(k, w) == Wide(k * w.day, k * w.sec)
WideZero == Wide(0, 0)

\* the time.Time zero value, 0001-01-01T00:00:00Z, which time.Parse returns
\* with an error
ZeroTime == Wide(0 - 736522, 0)

\* time.Now() of the run: 2017-07-13T20:20:00Z
Now == Wide(0, 20 * 3600 + 20 * 60)

\* time.Time.Add of a number of seconds
timeAdd(t, seconds) == Wide(t.day, t.sec + seconds)

\* the largest time.Duration, 2^63 - 1 nanoseconds, in whole seconds
MaxDuration == Wide(106751, 85636)

\* time.Time.Sub: the span from u to t, which saturates at the largest and the
\* smallest Duration
timeSub(t, u) ==
    LET d == Wide(t.day - u.day, t.sec - u.sec) IN
    IF WideLess(MaxDuration, d) THEN MaxDuration
    ELSE IF WideLess(d, WideNeg(MaxDuration)) THEN WideNeg(MaxDuration)
    ELSE d

\* Duration / 10 in whole seconds, rounded towards zero as Go's division and
\* int(Duration.Seconds()) round (client.go:613, 625)
tenthSeconds(d) ==
    LET abs == IF WideLess(d, WideZero) THEN WideNeg(d) ELSE d
        q == (abs.day \div 10) * SecondsPerDay
             + ((abs.day % 10) * SecondsPerDay + abs.sec) \div 10
    IN IF WideLess(d, WideZero) THEN 0 - q ELSE q

Pad2(n) == IF n < 10 THEN "0" \o ToString(n) ELSE ToString(n)

\* the calendar dates of the days of the model
dateOf(day) ==
    CASE day = 0 -> "2017-07-13"
      [] day = 0 - 1 -> "2017-07-12"
      [] day = 0 - 300 -> "2016-09-16"
      [] day = 0 - 301 -> "2016-09-15"
      [] day = 0 - 152500 -> "1600-01-01"
      [] day = 0 - 152501 -> "1599-12-31"
      [] day = 0 - 736522 -> "0001-01-01"
      [] day = 0 - 736523 -> "0000-12-31"
Days == {0, 0 - 1, 0 - 300, 0 - 301, 0 - 152500, 0 - 152501, 0 - 736522, 0 - 736523}

\* time.Format(time.RFC3339) in UTC
formatRFC3339(t) ==
    dateOf(t.day) \o "T" \o Pad2(t.sec \div 3600) \o ":" \o Pad2((t.sec % 3600) \div 60)
    \o ":" \o Pad2(t.sec % 60) \o "Z"

\* the seconds of the day of the instants the flags of the model name
ClockTimes ==
    {0, 3600, 14 * 3600 + 15 * 60, 17 * 3600 + 10 * 60 + 30, 17 * 3600 + 12 * 60 + 30,
     17 * 3600 + 15 * 60, 17 * 3600 + 20 * 60, 20 * 3600 + 10 * 60 + 30,
     20 * 3600 + 12 * 60 + 30, 20 * 3600 + 15 * 60, 20 * 3600 + 20 * 60,
     21 * 3600, 22 * 3600}
Instants == {Wide(day, sec) : day \in Days, sec \in ClockTimes}

\* a timestamp in time.UnixDate layout, and a string in neither layout
UnixDateStamp == "Thu Jul 13 20:10:30 UTC 2017"
NotATime == "yesterday"

\* time.Parse(time.RFC3339, ...) on the strings of the model: the instant of
\* each string that names one
RFC3339Instants ==
    [str \in {formatRFC3339(t) : t \in Instants} |->
        CHOOSE t \in Instants : formatRFC3339(t) = str]

\* client.go:558-564 on the strings of the model: RFC 3339 first, then UnixDate,
\* else the zero time
parseTime(ts) ==
    IF ts \in DOMAIN RFC3339Instants THEN RFC3339Instants[ts]
    ELSE IF ts = UnixDateStamp THEN Wide(0, 20 * 3600 + 10 * 60 + 30)
    ELSE ZeroTime

ThreeHours == 3 * 3600

\* a variant of defaultTimeRangeStr that counts the default start back from now
defaultTimeRangeStrFromNow(start, end) ==
    LET e == IF end = "" THEN formatRFC3339(Now) ELSE end
        st == IF start = "" THEN formatRFC3339(timeAdd(Now, 0 - ThreeHours)) ELSE start
    IN <<st, e>>

\* client.go:566-576
defaultTimeRangeStr(start, end) ==
    LET e == IF end = "" THEN formatRFC3339(Now) ELSE end
        st == IF start = "" THEN formatRFC3339(timeAdd(parseTime(e), 0 - ThreeHours))
              ELSE start
    IN <<st, e>>

\* client.go:614-618, in seconds
sizes ==
    <<15, 30, 60, 90, 2 * 60, 3 * 60, 5 * 60, 10 * 60, 15 * 60, 20 * 60, 30 * 60,
      3600, 2 * 3600, 3 * 3600, 8 * 3600, 12 * 3600, 24 * 3600,
      2 * 24 * 3600, 3 * 24 * 3600, 7 * 24 * 3600, 14 * 24 * 3600, 30 * 24 * 3600>>

\* a variant of autoStep whose test is "not smaller" (s >= sz)
autoStepNotSmaller(start, end) ==
    LET sz == tenthSeconds(timeSub(parseTime(end), parseTime(start)))
        greater == {i \in 1..Len(sizes) : sizes[i] >= sz}
    IN IF greater = {} THEN sz
       ELSE sizes[CHOOSE i \in greater : \A j \in greater : i <= j]

\* client.go:613-624: a tenth of the range, replaced by the first of sizes that
\* is greater, if there is one; in whole seconds
autoStep(start, end) ==
    LET sz == tenthSeconds(timeSub(parseTime(end), parseTime(start)))
        greater == {i \in 1..Len(sizes) : sizes[i] > sz}
    IN IF greater = {} THEN sz
       ELSE sizes[CHOOSE i \in greater : \A j \in greater : i <= j]

\* a variant of secondsStr that rounds to the nearest second
secondsStrRounded(ms) == ToString((ms + 500) \div 1000) \o "s"

\* fmt.Sprintf("%ds", int(d.Seconds())) of a Duration of ms milliseconds
secondsStr(ms) == ToString(ms \div 1000) \o "s"

\* client.go:591-597
timeoutStr(to) == IF to > 0 THEN secondsStr(to) ELSE ""

\* client.go:598-602 and 611-626: the step of a range query
stepStr(step, start, end) ==
    IF step > 0 THEN secondsStr(step)
    ELSE ToString(autoStep(start, end)) \o "s"

(***************************************************************************)
(* The calls of the storage client (prometheus.go:64-105, 114-181)         *)
(***************************************************************************)

\* the parameters of a call, "" and <<>> where the call has none:
\* map[string]any of prometheus.go:65, 71, 78, 84, 102
NoParams ==
    [query |-> "", match |-> <<>>, start |-> "", end |-> "", step |-> "",
     timeout |-> "", time |-> ""]

\* strings.Join(pairs, "&") of url.Values.Encode
RECURSIVE joinAmpersand(_)
joinAmpersand(pairs) ==
    IF pairs = <<>> THEN ""
    ELSE IF Len(pairs) = 1 THEN pairs[1]
    ELSE pairs[1] \o "&" \o joinAmpersand(Tail(pairs))

\* url.QueryEscape on the strings of the model: ":" of a timestamp is %3A,
\* braces, "=" and quotes of a selector are escaped, the letters, digits, "-"
\* and "_" of the other strings stay
queryEscape(str) ==
    IF str \in DOMAIN RFC3339Instants
    THEN LET t == RFC3339Instants[str] IN
         dateOf(t.day) \o "T" \o Pad2(t.sec \div 3600) \o "%3A"
         \o Pad2((t.sec % 3600) \div 60) \o "%3A" \o Pad2(t.sec % 60) \o "Z"
    ELSE CASE str = "{}" -> "%7B%7D"
           [] str = "{job=\"maia\"}" -> "%7Bjob%3D%22maia%22%7D"
           [] str = "match[]" -> "match%5B%5D"
           [] OTHER -> str

\* prometheus.go:123-134 and url.Values.Encode: key=value of every value added,
\* sorted by key and joined by "&"; an empty string is not added
encode(params) ==
    LET one(key, value) == IF value = "" THEN <<>>
                           ELSE <<queryEscape(key) \o "=" \o queryEscape(value)>>
        pairs == one("end", params.end)
                 \o [i \in 1..Len(params.match) |->
                        queryEscape("match[]") \o "=" \o queryEscape(params.match[i])]
                 \o one("query", params.query) \o one("start", params.start)
                 \o one("step", params.step) \o one("time", params.time)
                 \o one("timeout", params.timeout)
    IN joinAmpersand(pairs)

\* prometheus.go:114-138: the URL of a call, on the federate URL for /federate
\* and on the base URL otherwise; a nil federate URL is dereferenced
buildURL(promCli, path, params) ==
    IF path = "/federate" /\ promCli.federateURL = Nil
    THEN [panic |-> ErrNilPointer, url |-> Nil]
    ELSE [panic |-> "",
          url |-> Ptr([base |-> IF path = "/federate" THEN promCli.federateURL[1]
                                ELSE promCli.url[1],
                       path |-> path, RawQuery |-> encode(params)])]

\* url.URL.String: the query follows "?" if there is one
urlString(u) ==
    u.base \o u.path \o (IF u.RawQuery = "" THEN "" ELSE "?" \o u.RawQuery)

\* prometheus.go:154-181: the request sent, if any, and what the caller gets back
sendToPrometheus(promCli, method, u, headers, backend) ==
    IF ~isValidURL(u)
    THEN [request |-> Nil, err |-> "invalid URL: " \o urlString(u), response |-> Nil]
    ELSE [request |-> Ptr([method |-> method, url |-> urlString(u),
                           headers |-> requestHeaders(promCli.customHeaders, headers)]),
          err |-> backend.err, response |-> backend.response]

\* prometheus.go:64-105: the path each operation asks for
apiPath(op, name) ==
    CASE op = "Query" -> "/api/v1/query"
      [] op = "QueryRange" -> "/api/v1/query_range"
      [] op = "Series" -> "/api/v1/series"
      [] op = "LabelValues" -> "/api/v1/label/" \o name \o "/values"
      [] op = "Federate" -> "/federate"

\* prometheus.go:64-105: an operation of the driver on a client built with no
\* viper settings, whose federate URL is set
driverCall(promCli, op, name, params, acceptContentType, backend) ==
    sendToPrometheus(promCli, "GET", buildURL(promCli, apiPath(op, name), params).url[1],
                     MapPut(EmptyMap, "Accept", acceptContentType), backend)

(***************************************************************************)
(* Response bodies and what they decode to                                 *)
(***************************************************************************)

\* a sample timestamp (model.Time): an instant and its milliseconds
Stamp(sec, ms) == [day |-> 0, sec |-> sec, ms |-> ms]

\* a label set is a function on its label names
LabelsUpJob == [k \in {"__name__", "job"} |-> IF k = "job" THEN "maia" ELSE "up"]
LabelsInstance == [k \in {"instance"} |-> "host1"]

ValuesBody == "{\"status\":\"success\",\"data\":[\"vmware\",\"kubernetes\"]}"
SeriesBody ==
    "{\"status\":\"success\",\"data\":[{\"__name__\":\"up\",\"job\":\"maia\"},"
    \o "{\"instance\":\"host1\"}]}"
VectorBody ==
    "{\"status\":\"success\",\"data\":{\"resultType\":\"vector\",\"result\":["
    \o "{\"metric\":{\"__name__\":\"up\",\"job\":\"maia\"},\"value\":[1499976630.781,\"1\"]},"
    \o "{\"metric\":{\"instance\":\"host1\"},\"value\":[1499976645,\"0\"]}]}}"
MatrixBody ==
    "{\"status\":\"success\",\"data\":{\"resultType\":\"matrix\",\"result\":["
    \o "{\"metric\":{\"__name__\":\"up\",\"job\":\"maia\"},"
    \o "\"values\":[[1499976630.781,\"1\"],[1499976645,\"2\"],[1499976700,\"3\"]]},"
    \o "{\"metric\":{\"instance\":\"host1\"},\"values\":[[1499976645,\"0\"]]}]}}"
ScalarBody ==
    "{\"status\":\"success\",\"data\":{\"resultType\":\"scalar\",\"result\":[1499976630,\"42\"]}}"
EmptyObjectBody == "{}"
HTMLBody == "<html>Bad Gateway</html>"
MetricsBody == "up{job=\"maia\"} 1"

\* encoding/json on the bodies of the model: whether the body is a JSON
\* object, its "status", the shape of its "data" and the data
jsonOf(body) ==
    CASE body = ValuesBody ->
           [valid |-> TRUE, status |-> "success", shape |-> "strings",
            data |-> <<"vmware", "kubernetes">>]
      [] body = SeriesBody ->
           [valid |-> TRUE, status |-> "success", shape |-> "labelsets",
            data |-> <<LabelsUpJob, LabelsInstance>>]
      [] body = VectorBody ->
           [valid |-> TRUE, status |-> "success", shape |-> "vector",
            data |-> <<[metric |-> LabelsUpJob,
                        ts |-> Stamp(20 * 3600 + 10 * 60 + 30, 781), value |-> "1"],
                       [metric |-> LabelsInstance,
                        ts |-> Stamp(20 * 3600 + 10 * 60 + 45, 0), value |-> "0"]>>]
      [] body = MatrixBody ->
           [valid |-> TRUE, status |-> "success", shape |-> "matrix",
            data |-> <<[metric |-> LabelsUpJob,
                        values |-> <<[ts |-> Stamp(20 * 3600 + 10 * 60 + 30, 781),
                                      value |-> "1"],
                                     [ts |-> Stamp(20 * 3600 + 10 * 60 + 45, 0),
                                      value |-> "2"],
                                     [ts |-> Stamp(20 * 3600 + 11 * 60 + 40, 0),
                                      value |-> "3"]>>],
                       [metric |-> LabelsInstance,
                        values |-> <<[ts |-> Stamp(20 * 3600 + 10 * 60 + 45, 0),
                                      value |-> "0"]>>]>>]
      [] body = ScalarBody ->
           [valid |-> TRUE, status |-> "success", shape |-> "scalar",
            data |-> <<[ts |-> Stamp(20 * 3600 + 10 * 60 + 30, 0), value |-> "42"]>>]
      [] body = EmptyObjectBody ->
           [valid |-> TRUE, status |-> "", shape |-> "none", data |-> <<>>]
      [] OTHER -> [valid |-> FALSE, status |-> "", shape |-> "none", data |-> <<>>]

ErrUnmarshal == "json: cannot unmarshal the response body"

\* storage.QueryResponse: a body decodes into it when its data is a vector,
\* a matrix or a scalar
decodesAsQueryResponse(doc) == doc.shape \in {"vector", "matrix", "scalar"}

\* json.Unmarshal into struct{ Value []string `json:"data"` } (client.go:214-219),
\* into struct{ Table []model.LabelSet `json:"data"` } (client.go:258-263),
\* into storage.QueryResponse (client.go:387-391) and into map[string]any
\* (client.go:372-375): the decoded data, or the error
unmarshalInto(target, body) ==
    LET doc == jsonOf(body)
        fits == CASE target = "strings" -> doc.shape \in {"strings", "none"}
                  [] target = "labelsets" -> doc.shape \in {"labelsets", "none"}
                  [] target = "query" -> decodesAsQueryResponse(doc)
                  [] target = "map" -> TRUE
    IN IF doc.valid /\ fits THEN [err |-> "", doc |-> doc]
       ELSE [err |-> ErrUnmarshal, doc |-> doc]

\* strings.ToLower on the values of --format
toLower(format) ==
    CASE format = "JSON" -> "json"
      [] format = "TaBle" -> "table"
      [] format = "Value" -> "value"
      [] OTHER -> format

\* strings.EqualFold on the values of --format
equalFold(format, name) == toLower(format) = name

\* strings.HasPrefix(contentType, "text/plain") on the content types of the model
hasPrefixTextPlain(contentType) ==
    contentType \in {"text/plain", "text/plain; version=0.0.4; charset=utf-8"}

\* strings.Split(columns, ",") on the values of --columns
splitColumns(cols) ==
    CASE cols = "job" -> <<"job">>
      [] cols = "job,region" -> <<"job", "region">>
      [] cols = "job,job" -> <<"job", "job">>
      [] cols = "" -> <<"">>

\* the strings a table sorts, in the order of sort.Strings
SortedStrings ==
    <<"2017-07-13T20:10:00Z", "2017-07-13T20:10:30Z", "2017-07-13T20:10:45Z",
      "2017-07-13T20:11:30Z", "2017-07-13T20:11:40Z", "__name__", "instance", "job">>

\* a variant of makeColumns that lists the keys in descending order
makeColumnsDescending(collector) ==
    LET up == SelectSeq(SortedStrings, LAMBDA c : c \in collector)
    IN [i \in 1..Len(up) |-> up[Len(up) + 1 - i]]

\* client.go:348-356: the keys of the collector, sorted
makeColumns(collector) ==
    SelectSeq(SortedStrings, LAMBDA c : c \in collector)

\* the label names of a sequence of elements with a metric
RECURSIVE collectKeys(_, _)
collectKeys(collector, elements) ==
    IF elements = <<>> THEN collector
    ELSE collectKeys(collector \cup DOMAIN Head(elements), Tail(elements))

\* client.go:318-328 and 358-368: the fields of a line, separated
RECURSIVE joinFields(_, _)
joinFields(fields, sep) ==
    IF fields = <<>> THEN ""
    ELSE IF Len(fields) = 1 THEN fields[1]
    ELSE fields[1] \o sep \o joinFields(Tail(fields), sep)

\* a variant of printRow that prints only the fields the row has
printRowSkipsMissing(allColumns, rec, sep) ==
    joinFields(SelectSeq([i \in 1..Len(allColumns) |->
                             IF allColumns[i] \in DOMAIN rec THEN rec[allColumns[i]] ELSE ""],
                         LAMBDA field : field # ""), sep)

\* client.go:358-368
printRow(allColumns, rec, sep) ==
    joinFields([i \in 1..Len(allColumns) |->
                   IF allColumns[i] \in DOMAIN rec THEN rec[allColumns[i]] ELSE ""], sep)

\* client.go:318-328
printHeader(allColumns, format, sep) ==
    IF ~equalFold(format, "value") THEN <<joinFields(allColumns, sep)>> ELSE <<>>

(***************************************************************************)
(* The printers (client.go:199-294, 381-484)                               *)
(***************************************************************************)

ErrUnsupportedFormat(format) == "unsupported --format value for this command: " \o format
ErrUnsupportedType(contentType) == "unsupported response type from server: " \o contentType
ErrMissingTemplate == "missing --template parameter"
ErrReadBody(response) ==
    "server responsed with error code " \o Itoa(response.StatusCode) \o ": "
    \o response.readErr
\* client.go:460: the same message as written to standard error
ErrReadBodyStderr(response) ==
    "Server responsed with error code " \o Itoa(response.StatusCode) \o ": "
    \o response.readErr
\* client.go:234 and client.go:290, 481: the body as logged before the panic
LogBody(body) == "Response body: " \o body
LogBodyWarning(body) == "WARNING: Response body: " \o body

timestampKey == "__timestamp__"
valueKey == "__value__"

\* What a printer leaves behind: the lines and texts written to standard
\* output, what went to standard error, the error panicked with ("" if the
\* printer returned) and whether the body was closed.
Printed(out, errOut, panic) ==
    [out |-> out, errOut |-> errOut, panic |-> panic, closed |-> TRUE]

\* the package variables the printers read, as one value
RenderSpec ==
    [outputFormat |-> outputFormat, jsonTemplate |-> jsonTemplate,
     columns |-> columns, separator |-> separator, stepsize |-> stepsize]

\* client.go:202-238
printValues(response, r) ==
    IF response.readErr # "" THEN Printed(<<>>, "", ErrReadBody(response))
    ELSE IF response.ContentType = JSON
    THEN IF equalFold(r.outputFormat, "json") THEN Printed(<<response.Body>>, "", "")
         ELSE IF equalFold(r.outputFormat, "value")
         THEN LET u == unmarshalInto("strings", response.Body) IN
              IF u.err # "" THEN Printed(<<>>, "", u.err)
              ELSE Printed(u.doc.data, "", "")
         ELSE Printed(<<>>, "", ErrUnsupportedFormat(r.outputFormat))
    ELSE IF hasPrefixTextPlain(response.ContentType)
    THEN IF equalFold(r.outputFormat, "value") THEN Printed(<<response.Body>>, "", "")
         ELSE Printed(<<>>, "", ErrUnsupportedFormat(r.outputFormat))
    ELSE Printed(<<>>, LogBody(response.Body), ErrUnsupportedType(response.ContentType))

\* client.go:332-339
extractSeriesColumns(table) == makeColumns(collectKeys({}, table))

\* client.go:243-294
printTable(response, r) ==
    IF response.readErr # "" THEN Printed(<<ErrReadBody(response)>>, "", "")
    ELSE IF response.ContentType = JSON
    THEN IF equalFold(r.outputFormat, "json") THEN Printed(<<response.Body>>, "", "")
         ELSE IF equalFold(r.outputFormat, "table") \/ equalFold(r.outputFormat, "value")
         THEN LET u == unmarshalInto("labelsets", response.Body) IN
              IF u.err # "" THEN Printed(<<>>, "", u.err)
              ELSE LET allColumns == IF r.columns = ""
                                     THEN extractSeriesColumns(u.doc.data)
                                     ELSE splitColumns(r.columns)
                   IN Printed(printHeader(allColumns, r.outputFormat, r.separator)
                              \o [i \in 1..Len(u.doc.data) |->
                                     printRow(allColumns, u.doc.data[i], r.separator)],
                              "", "")
         ELSE Printed(<<>>, "", ErrUnsupportedFormat(r.outputFormat))
    ELSE IF hasPrefixTextPlain(response.ContentType)
    THEN Printed(<<response.Body>>, "", "")
    ELSE Printed(<<>>, LogBodyWarning(response.Body),
                 ErrUnsupportedType(response.ContentType))

\* time.Time.Truncate(d) for d milliseconds: the instant rounded down to a
\* multiple of d since the zero time; unchanged if d <= 0
truncate(t, d) ==
    IF d <= 0 THEN t
    ELSE LET sinceZero == t.day - ZeroTime.day
             inDay == t.sec * 1000 + t.ms
             rest == (((sinceZero % d) * ((SecondsPerDay * 1000) % d)) + inDay) % d
             w == Wide(t.day, (inDay - rest) \div 1000)
         IN [day |-> w.day, sec |-> w.sec, ms |-> (inDay - rest) % 1000]

\* a variant of timeColumnFromTS that names the column by the sample's own second
timeColumnFromTSExact(ts, step) == formatRFC3339(ts)

\* client.go:382-384, tzLocation being UTC
timeColumnFromTS(ts, step) == formatRFC3339(truncate(ts, step))

\* time.Format(time.RFC3339Nano) of a millisecond timestamp in UTC
formatRFC3339Nano(t) ==
    dateOf(t.day) \o "T" \o Pad2(t.sec \div 3600) \o ":" \o Pad2((t.sec % 3600) \div 60)
    \o ":" \o Pad2(t.sec % 60)
    \o (IF t.ms = 0 THEN ""
        ELSE IF t.ms % 100 = 0 THEN "." \o ToString(t.ms \div 100)
        ELSE IF t.ms % 10 = 0 THEN "." \o Pad2(t.ms \div 10)
        ELSE IF t.ms < 10 THEN ".00" \o ToString(t.ms)
        ELSE IF t.ms < 100 THEN ".0" \o ToString(t.ms)
        ELSE "." \o ToString(t.ms))
    \o "Z"

\* model.Time.String: seconds since the epoch of 1970, 1499904000 being
\* 2017-07-13T00:00:00Z
unixSeconds(t) == ToString(1499904000 + t.day * SecondsPerDay + t.sec)

\* a function with key mapped to value, as columnValues[key] = value
RowPut(row, key, value) ==
    [k \in DOMAIN row \cup {key} |-> IF k = key THEN value ELSE row[k]]

\* client.go:409-413: the samples of a series written into its row
RECURSIVE putSamples(_, _, _)
putSamples(row, values, step) ==
    IF values = <<>> THEN row
    ELSE putSamples(RowPut(row, timeColumnFromTS(Head(values).ts, step), Head(values).value),
                    Tail(values), step)

\* client.go:401-413: the timestamp columns of a matrix
tsSetOf(matrix, step) ==
    UNION {{timeColumnFromTS(matrix[i].values[j].ts, step) :
              j \in 1..Len(matrix[i].values)} : i \in 1..Len(matrix)}

\* client.go:299-315: the names of the label columns
buildColumnSet(r, promResult) ==
    IF r.columns # "" THEN {splitColumns(r.columns)[i] : i \in 1..Len(splitColumns(r.columns))}
    ELSE collectKeys({}, [i \in 1..Len(promResult) |-> promResult[i].metric])

\* client.go:386-453: the header and the rows
printQueryResultAsTable(body, r) ==
    LET u == unmarshalInto("query", body) IN
    IF u.err # "" THEN Printed(<<>>, "", u.err)
    ELSE LET value == u.doc.data
             labelColumns == IF r.columns # "" THEN splitColumns(r.columns)
                             ELSE makeColumns(buildColumnSet(r, value))
             allColumns ==
                 CASE u.doc.shape = "matrix" ->
                        labelColumns \o makeColumns(tsSetOf(value, r.stepsize))
                  [] u.doc.shape = "vector" -> labelColumns \o <<timestampKey, valueKey>>
                  [] u.doc.shape = "scalar" -> <<timestampKey, valueKey>>
             rows ==
                 CASE u.doc.shape = "matrix" ->
                        [i \in 1..Len(value) |->
                            putSamples(value[i].metric, value[i].values, r.stepsize)]
                  [] u.doc.shape = "vector" ->
                        [i \in 1..Len(value) |->
                            [k \in DOMAIN value[i].metric \cup {timestampKey, valueKey} |->
                                IF k \in DOMAIN value[i].metric THEN value[i].metric[k]
                                ELSE IF k = timestampKey
                                THEN formatRFC3339Nano(value[i].ts)
                                ELSE value[i].value]]
                  [] u.doc.shape = "scalar" ->
                        <<[k \in {timestampKey, valueKey} |->
                              IF k = timestampKey THEN formatRFC3339Nano(value[1].ts)
                              ELSE "scalar: " \o value[1].value \o " @["
                                   \o unixSeconds(value[1].ts) \o "]"]>>
         IN Printed(printHeader(allColumns, r.outputFormat, r.separator)
                    \o [i \in 1..Len(rows) |-> printRow(allColumns, rows[i], r.separator)],
                    "", "")

\* text/template on the templates of the model, executed on the decoded body
executeTemplate(tpl, doc) ==
    CASE tpl = "{{.status}}" -> IF doc.status = "" THEN "<no value>" ELSE doc.status
      [] OTHER -> tpl

\* client.go:370-379
printTemplate(body, tpl) ==
    LET u == unmarshalInto("map", body) IN
    IF u.err # "" THEN Printed(<<>>, "", u.err)
    ELSE Printed(<<executeTemplate(tpl, u.doc)>>, "", "")

\* a variant of printQueryResponse that prints a plain-text body for --format value
printQueryResponsePlainValue(response, r) ==
    IF response.readErr # "" THEN Printed(<<>>, ErrReadBodyStderr(response), "")
    ELSE IF response.ContentType = JSON
    THEN CASE toLower(r.outputFormat) = "json" -> Printed(<<response.Body>>, "", "")
           [] toLower(r.outputFormat) = "template" ->
                IF r.jsonTemplate = "" THEN Printed(<<>>, "", ErrMissingTemplate)
                ELSE printTemplate(response.Body, r.jsonTemplate)
           [] toLower(r.outputFormat) = "table" ->
                printQueryResultAsTable(response.Body, r)
           [] OTHER -> Printed(<<>>, "", ErrUnsupportedFormat(r.outputFormat))
    ELSE IF hasPrefixTextPlain(response.ContentType)
    THEN IF equalFold(r.outputFormat, "value") THEN Printed(<<response.Body>>, "", "")
         ELSE Printed(<<>>, "", ErrUnsupportedFormat(r.outputFormat))
    ELSE Printed(<<>>, LogBodyWarning(response.Body),
                 ErrUnsupportedType(response.ContentType))

\* client.go:455-484
printQueryResponse(response, r) ==
    IF response.readErr # "" THEN Printed(<<>>, ErrReadBodyStderr(response), "")
    ELSE IF response.ContentType = JSON
    THEN CASE toLower(r.outputFormat) = "json" -> Printed(<<response.Body>>, "", "")
           [] toLower(r.outputFormat) = "template" ->
                IF r.jsonTemplate = "" THEN Printed(<<>>, "", ErrMissingTemplate)
                ELSE printTemplate(response.Body, r.jsonTemplate)
           [] toLower(r.outputFormat) = "table" ->
                printQueryResultAsTable(response.Body, r)
           [] OTHER -> Printed(<<>>, "", ErrUnsupportedFormat(r.outputFormat))
    ELSE Printed(<<>>, LogBodyWarning(response.Body),
                 ErrUnsupportedType(response.ContentType))

(***************************************************************************)
(* SpecRender: each printer on every kind of response and every format     *)
(***************************************************************************)

ContentTypes ==
    {JSON, PlainText, "text/plain; version=0.0.4; charset=utf-8", "text/html",
     "application/json; charset=utf-8"}
RenderBodies ==
    {ValuesBody, SeriesBody, VectorBody, MatrixBody, ScalarBody, EmptyObjectBody,
     HTMLBody, MetricsBody}
Formats == {"", "json", "JSON", "value", "table", "TaBle", "template", "csv"}
ColumnLists == {"", "job", "job,region", "job,job"}

\* the 200 responses handed to the printers
RenderInputs ==
    {[StatusCode |-> 200, Status |-> "200 OK", ContentType |-> ct, Body |-> body,
      readErr |-> readErr] :
        ct \in ContentTypes, body \in RenderBodies, readErr \in ReadErrors}

InitRender ==
    /\ InitCommon
    /\ auth = DefaultAuth
    /\ authType = ""
    /\ scopedDomain = ""
    /\ maiaURL = ""
    /\ promURL = "http://prometheus:9090"
    /\ env = NoEnv
    /\ useGlobalKeystone = FALSE
    /\ starttime = ""
    /\ endtime = ""
    /\ timestamp = ""
    /\ timeout = 0
    /\ stepsize \in {0, 30000, 300000}
    /\ outputFormat \in Formats
    /\ jsonTemplate \in {"", "{{.status}}"}
    /\ columns \in ColumnLists
    /\ separator \in {" ", ";"}

\* the state after a printer ran on a response
Render(printer, response, result) ==
    /\ printed = <<>>
    /\ run = <<>>
    /\ printed' = <<[printer |-> printer, response |-> response, result |-> result]>>
    /\ UNCHANGED <<auth, authType, scopedDomain, maiaURL, promURL, useGlobalKeystone,
                   env, storageDriver, starttime, endtime, last, run, nCommands,
                   authCount, driversBuilt, resp, checked, queryFlags, renderFlags,
                   timed,
                   storage>>

PrintValues ==
    \E response \in RenderInputs :
        Render("printValues", response, printValues(response, RenderSpec))

PrintTable ==
    \E response \in RenderInputs :
        Render("printTable", response, printTable(response, RenderSpec))

PrintQueryResponse ==
    \E response \in RenderInputs :
        Render("printQueryResponse", response, printQueryResponse(response, RenderSpec))


\* a printer has run; its input and what it left behind
Rendered == printed # <<>>
RenderedBy(printer) == Rendered /\ printed[1].printer = printer
BodyRead == Rendered /\ printed[1].response.readErr = ""
IsPlainText == Rendered /\ hasPrefixTextPlain(printed[1].response.ContentType)
IsJSON == Rendered /\ printed[1].response.ContentType = JSON
PassedThrough ==
    /\ printed[1].result.panic = ""
    /\ printed[1].result.out = <<printed[1].response.Body>>
FailedUnsupportedFormat ==
    /\ printed[1].result.panic = ErrUnsupportedFormat(outputFormat)
    /\ printed[1].result.out = <<>>
FailedUnsupportedType ==
    /\ printed[1].result.panic = ErrUnsupportedType(printed[1].response.ContentType)
    /\ printed[1].result.out = <<>>

\* C18 as stated: every printer passes a plain-text response through exactly
\* for --format value, fails every other format against plain text with the
\* unsupported-format error, and fails a response that is neither JSON nor
\* plain text with the unsupported-response-type error.
C18_PlainTextOnlyForValue ==
    BodyRead =>
        /\ (IsPlainText /\ equalFold(outputFormat, "value")) => PassedThrough
        /\ (IsPlainText /\ ~equalFold(outputFormat, "value")) => FailedUnsupportedFormat
        /\ (~IsPlainText /\ ~IsJSON) => FailedUnsupportedType

\* the position of a string in the order of sort.Strings
Rank(str) == CHOOSE i \in 1..Len(SortedStrings) : SortedStrings[i] = str

\* the strings of a set in ascending order, each once
Ascending(set) ==
    CHOOSE cols \in [1..Cardinality(set) -> set] :
        \A i, j \in 1..Cardinality(set) : i < j => Rank(cols[i]) < Rank(cols[j])

\* the label names over all elements of the decoded data
LabelKeys(elements) == UNION {DOMAIN elements[i].metric : i \in 1..Len(elements)}
SeriesKeys(table) == UNION {DOMAIN table[i] : i \in 1..Len(table)}

\* the label columns a table is to have for these label names
LabelColumns(keys) == IF columns # "" THEN splitColumns(columns) ELSE Ascending(keys)

\* the line of a row: per column the value of the label, empty if it has none
RowLine(cols, rec) ==
    joinFields([i \in 1..Len(cols) |-> IF cols[i] \in DOMAIN rec THEN rec[cols[i]] ELSE ""],
               separator)

\* the data of the body a printer was handed
RenderedData == jsonOf(printed[1].response.Body).data

\* a series list was rendered as a table by printTable, a vector by
\* printQueryResponse
SeriesTable ==
    /\ RenderedBy("printTable") /\ BodyRead /\ IsJSON
    /\ printed[1].response.Body = SeriesBody
    /\ toLower(outputFormat) = "table"
VectorTable ==
    /\ RenderedBy("printQueryResponse") /\ BodyRead /\ IsJSON
    /\ printed[1].response.Body = VectorBody
    /\ toLower(outputFormat) = "table"

\* the row of a vector element: its labels, and the reserved columns where no
\* label has their name
VectorRow(el) ==
    [k \in DOMAIN el.metric \cup {timestampKey, valueKey} |->
        IF k \in DOMAIN el.metric THEN el.metric[k]
        ELSE IF k = timestampKey THEN formatRFC3339Nano(el.ts) ELSE el.value]

\* C19: a table of a series list or of a vector has as label columns the
\* --columns list as given, otherwise the label names of all elements, sorted
\* and each once; a vector's table has __timestamp__ and __value__ after
\* them; each row prints per column its value, empty where it has none.
C19_TableColumns ==
    /\ SeriesTable =>
          LET cols == LabelColumns(SeriesKeys(RenderedData)) IN
          /\ printed[1].result.panic = ""
          /\ printed[1].result.out =
                 <<joinFields(cols, separator)>>
                 \o [i \in 1..Len(RenderedData) |-> RowLine(cols, RenderedData[i])]
    /\ VectorTable =>
          LET cols == LabelColumns(LabelKeys(RenderedData)) \o <<timestampKey, valueKey>> IN
          /\ printed[1].result.panic = ""
          /\ printed[1].result.out =
                 <<joinFields(cols, separator)>>
                 \o [i \in 1..Len(RenderedData) |-> RowLine(cols, VectorRow(RenderedData[i]))]

\* a vector of two elements with different label sets, printed without
\* --columns: the sorted union, the reserved columns, and empty fields
C19_Witness ==
    /\ VectorTable
    /\ columns = ""
    /\ separator = ";"
    /\ printed[1].result.out =
           <<"__name__;instance;job;__timestamp__;__value__",
             "up;;maia;2017-07-13T20:10:30.781Z;1",
             ";host1;;2017-07-13T20:10:45Z;0">>

\* a matrix was rendered as a table with a step configured
MatrixTable ==
    /\ RenderedBy("printQueryResponse") /\ BodyRead /\ IsJSON
    /\ printed[1].response.Body = MatrixBody
    /\ toLower(outputFormat) = "table"
    /\ stepsize > 0

\* the timestamp strings a header can hold
TimestampNames == {SortedStrings[i] : i \in 1..5}

\* the second of 2017-07-13 a timestamp string names, among every fifth
\* second from 20:10:00 to 20:12:00
SecondNamed(name) ==
    CHOOSE sec \in {20 * 3600 + 10 * 60 + 5 * k : k \in 0..24} :
        formatRFC3339(Wide(0, sec)) = name

\* the samples of a matrix
Samples(matrix) ==
    UNION {{matrix[i].values[j] : j \in 1..Len(matrix[i].values)} : i \in 1..Len(matrix)}

\* name is the instant at or before the sample that is a multiple of the
\* step, less than a step before the sample
NamesSample(name, sample) ==
    LET at == SecondNamed(name) * 1000
        of == sample.ts.sec * 1000 + sample.ts.ms
    IN /\ sample.ts.day = 0
       /\ at % stepsize = 0
       /\ at <= of
       /\ of < at + stepsize

\* C20: the table of a matrix has the label columns (the --columns list, or
\* the sorted label names) and after them, sorted and each once, the
\* timestamps of the samples truncated down to the step.
C20_MatrixColumns ==
    MatrixTable =>
        /\ printed[1].result.panic = ""
        /\ \E names \in SUBSET TimestampNames :
              /\ \A sample \in Samples(RenderedData) :
                     \E name \in names : NamesSample(name, sample)
              /\ \A name \in names :
                     \E sample \in Samples(RenderedData) : NamesSample(name, sample)
              /\ printed[1].result.out[1] =
                     joinFields(LabelColumns(LabelKeys(RenderedData)) \o Ascending(names),
                                separator)

\* four samples at 20:10:30.781, 20:10:45 (twice) and 20:11:40 with a step
\* of 30s: two timestamp columns
C20_Witness ==
    /\ MatrixTable
    /\ stepsize = 30000
    /\ columns = ""
    /\ separator = " "
    /\ printed[1].result.out =
           <<"__name__ instance job 2017-07-13T20:10:30Z 2017-07-13T20:11:30Z",
             "up  maia 2 3",
             " host1  0 ">>

\* a body was rendered as a table by printQueryResponse
QueryTable(body) ==
    /\ RenderedBy("printQueryResponse") /\ BodyRead /\ IsJSON
    /\ printed[1].response.Body = body
    /\ toLower(outputFormat) = "table"

\* a series list was rendered by printTable, with or without a header
SeriesRows ==
    /\ RenderedBy("printTable") /\ BodyRead /\ IsJSON
    /\ printed[1].response.Body = SeriesBody
    /\ toLower(outputFormat) \in {"table", "value"}

\* the lines a printer wrote to the standard output
Lines == printed[1].result.out

\* the timestamp columns of the samples of a series, as the --step flag names them
ColumnNames(values) == {timeColumnFromTS(values[j].ts, stepsize) : j \in 1..Len(values)}

\* the row of a series of a matrix: its labels, and per timestamp column
\* the value of the last of its samples the column names
MatrixRow(el) ==
    LET last_(k) == CHOOSE j \in 1..Len(el.values) :
                       /\ timeColumnFromTS(el.values[j].ts, stepsize) = k
                       /\ \A i \in 1..Len(el.values) :
                              timeColumnFromTS(el.values[i].ts, stepsize) = k => i <= j
    IN [k \in DOMAIN el.metric \cup ColumnNames(el.values) |->
           IF k \in ColumnNames(el.values) THEN el.values[last_(k)].value
           ELSE el.metric[k]]

\* the lines of a table: the header, and per row one field per column,
\* with one separator less than there are columns
TableLines(cols, rows) ==
    <<joinFields(cols, separator)>> \o [i \in 1..Len(rows) |-> RowLine(cols, rows[i])]

\* C25: a query result rendered as a table has one row per series of a
\* matrix, one per element of a vector and exactly one for a scalar, whose
\* columns are __timestamp__ and __value__ alone; the header is printed
\* if and only if the format is not "value"; every row prints one field
\* per column, separated by the separator, empty where it has no value.
C25_OneRowPerElement ==
    /\ QueryTable(MatrixBody) =>
          LET cols == LabelColumns(LabelKeys(RenderedData))
                      \o Ascending(UNION {ColumnNames(RenderedData[i].values) :
                                             i \in 1..Len(RenderedData)})
          IN /\ Len(Lines) = 1 + Len(RenderedData)
             /\ Lines = TableLines(cols, [i \in 1..Len(RenderedData) |->
                                             MatrixRow(RenderedData[i])])
    /\ QueryTable(VectorBody) =>
          LET cols == LabelColumns(LabelKeys(RenderedData)) \o <<timestampKey, valueKey>>
          IN /\ Len(Lines) = 1 + Len(RenderedData)
             /\ Lines = TableLines(cols, [i \in 1..Len(RenderedData) |->
                                             VectorRow(RenderedData[i])])
    /\ QueryTable(ScalarBody) =>
          Lines = <<joinFields(<<"__timestamp__", "__value__">>, separator),
                    joinFields(<<"2017-07-13T20:10:30Z", "scalar: 42 @[1499976630]">>,
                               separator)>>
    /\ SeriesRows =>
          LET cols == LabelColumns(SeriesKeys(RenderedData))
              rows == [i \in 1..Len(RenderedData) |-> RowLine(cols, RenderedData[i])]
          IN Lines = IF toLower(outputFormat) = "value" THEN rows
                     ELSE <<joinFields(cols, separator)>> \o rows

\* a matrix of two series printed without --step and without --columns: a
\* header and two rows of six fields, five separators each, the values a
\* series lacks left empty
C25_Witness ==
    /\ QueryTable(MatrixBody)
    /\ stepsize = 0
    /\ columns = ""
    /\ separator = ";"
    /\ Lines = <<"__name__;instance;job;2017-07-13T20:10:30Z;2017-07-13T20:10:45Z;"
                 \o "2017-07-13T20:11:40Z",
                 "up;;maia;1;2;3",
                 ";host1;;;0;">>

(***************************************************************************)
(* SpecTime: the time range and the step of a range query, computed as     *)
(* Series and Query compute them (client.go:534, 610-626), on every pair   *)
(* of --start and --end values of the model.                               *)
(***************************************************************************)

\* the values of --start and --end
TimeStrings ==
    {"", "2017-07-13T20:10:30Z", "2017-07-13T20:12:30Z", "2017-07-13T20:15:00Z",
     "2017-07-13T20:20:00Z", "2017-07-13T17:15:00Z", "2017-07-13T01:00:00Z",
     "2016-09-16T20:15:00Z", "2016-09-15T20:15:00Z", "1600-01-01T00:00:00Z",
     UnixDateStamp, NotATime}

\* the values of --step and --timeout, in milliseconds
StepSizes == {0, 1500, 30000}
Timeouts == {0, 2500, 90000}

InitTime ==
    /\ InitCommon
    /\ InitRenderFlags
    /\ auth = DefaultAuth
    /\ authType = ""
    /\ scopedDomain = ""
    /\ maiaURL = ""
    /\ promURL = ""
    /\ env = NoEnv
    /\ useGlobalKeystone = FALSE
    /\ timestamp = ""
    /\ starttime \in TimeStrings
    /\ endtime \in TimeStrings
    /\ stepsize \in StepSizes
    /\ timeout \in Timeouts

\* client.go:534 and 610: starttime, endtime = defaultTimeRangeStr(starttime, endtime)
DefaultTimeRangeStr ==
    /\ timed = <<>>
    /\ LET range == defaultTimeRangeStr(starttime, endtime) IN
        /\ starttime' = range[1]
        /\ endtime' = range[2]
        /\ timed' = <<[start |-> starttime, end |-> endtime, stepped |-> FALSE,
                       step |-> 0, stepStr |-> "", timeoutStr |-> ""]>>
    /\ UNCHANGED <<auth, authType, scopedDomain, maiaURL, promURL, useGlobalKeystone,
                   env, storageDriver, last, run, nCommands, authCount, driversBuilt,
                   resp, checked, queryFlags, renderFlags, printed,
                   storage>>

\* client.go:591-602 and 611-626: timeoutStr and stepStr of the range query
StepStr ==
    /\ timed # <<>>
    /\ ~timed[1].stepped
    /\ timed' = <<[timed[1] EXCEPT
                     !.stepped = TRUE,
                     !.step = IF stepsize > 0 THEN stepsize \div 1000
                              ELSE autoStep(starttime, endtime),
                     !.stepStr = stepStr(stepsize, starttime, endtime),
                     !.timeoutStr = timeoutStr(timeout)]>>
    /\ UNCHANGED <<auth, authType, scopedDomain, maiaURL, promURL, useGlobalKeystone,
                   env, storageDriver, starttime, endtime, last, run, nCommands,
                   authCount, driversBuilt, resp, checked, queryFlags, renderFlags,
                   printed,
                   storage>>

NextTime == DefaultTimeRangeStr \/ StepStr

SpecTime == InitTime /\ [][NextTime]_vars

(***************************************************************************)
(* Claims about the time range and the step, checked under SpecTime        *)
(***************************************************************************)

Timed == timed[1]
AutoStepped == timed # <<>> /\ Timed.stepped /\ stepsize = 0
\* end - start of the range sent, as parseTime reads the bounds, not cut off
RangeSent ==
    LET e == parseTime(endtime)
        b == parseTime(starttime)
    IN Wide(e.day - b.day, e.sec - b.sec)
\* ten times (end - start)/10 < s, for s seconds
TargetBelow(s) == WideLess(RangeSent, WideTimes(10, WideOf(s)))
RangeWithinDuration ==
    /\ ~WideLess(MaxDuration, RangeSent)
    /\ ~WideLess(RangeSent, WideNeg(MaxDuration))
Ladder == {sizes[i] : i \in 1..Len(sizes)}
LadderStep(s) ==
    /\ s \in Ladder
    /\ TargetBelow(s)
    /\ \A r \in Ladder : TargetBelow(r) => s <= r

\* C12 as stated: for every range query with no step configured, the step sent
\* is the smallest value of the ladder (15s ... 30d) that is strictly greater
\* than (end - start)/10, for every range length: targets equal to a ladder
\* value, targets at or above 30d and ranges where end precedes start included.
C12_StepIsLadderValue ==
    AutoStepped =>
        /\ LadderStep(Timed.step)
        /\ Timed.stepStr = ToString(Timed.step) \o "s"

\* C12 as the code has it: with no step configured the step sent is the
\* smallest value of the ladder that is strictly greater than (end - start)/10
\* whenever the ladder has such a value; when it has none, the target being 30d
\* or more, the step sent is the target itself in whole seconds, rounded down,
\* of a range that is cut off at the largest Duration.
C12_StepIsLadderValueOrTarget ==
    AutoStepped =>
        /\ Timed.stepStr = ToString(Timed.step) \o "s"
        /\ IF \E s \in Ladder : TargetBelow(s)
           THEN LadderStep(Timed.step)
           ELSE LET cut == IF RangeWithinDuration THEN RangeSent ELSE MaxDuration IN
                /\ ~WideLess(cut, WideTimes(10, WideOf(Timed.step)))
                /\ WideLess(cut, WideTimes(10, WideOf(Timed.step + 1)))

\* a range of 301 days, whose target is above 30d, was given its tenth
C12_Witness ==
    /\ AutoStepped
    /\ Timed.start = "2016-09-15T20:15:00Z" /\ Timed.end = "2017-07-13T20:15:00Z"
    /\ Timed.stepStr = "2600640s"

\* C13 as stated: for every range query with auto-selected step, the number of
\* whole steps that fit in the range, (end - start) divided by the step sent,
\* is at most 10, whatever the length of the range.
C13_AtMostTenSteps ==
    AutoStepped => WideLess(RangeSent, WideTimes(11, WideOf(Timed.step)))

\* C15 as stated: defaultTimeRangeStr returns (now - 3h, now) when neither bound
\* is given; when only one bound is given the other is derived from the given
\* one, three hours apart (only end given: start = end - 3h; only start given:
\* end = start + 3h); bounds that are given are returned unchanged.
C15_DefaultsFromGivenBound ==
    timed # <<>> =>
        /\ Timed.start # "" => starttime = Timed.start
        /\ Timed.end # "" => endtime = Timed.end
        /\ (Timed.start = "" /\ Timed.end = "") =>
              /\ endtime = "2017-07-13T20:20:00Z"
              /\ starttime = "2017-07-13T17:20:00Z"
        /\ (Timed.start = "" /\ Timed.end # "") =>
              starttime = formatRFC3339(timeAdd(parseTime(Timed.end), 0 - ThreeHours))
        /\ (Timed.start # "" /\ Timed.end = "") =>
              endtime = formatRFC3339(timeAdd(parseTime(Timed.start), ThreeHours))

\* C15 as the code has it: defaultTimeRangeStr returns (now - 3h, now) when
\* neither bound is given; when only end is given, start is end - 3h; when only
\* start is given, end is now, whatever start is; bounds that are given are
\* returned unchanged.
C15_EndDefaultsToNow ==
    timed # <<>> =>
        /\ Timed.start # "" => starttime = Timed.start
        /\ Timed.end # "" => endtime = Timed.end
        /\ (Timed.start = "" /\ Timed.end = "") =>
              /\ endtime = "2017-07-13T20:20:00Z"
              /\ starttime = "2017-07-13T17:20:00Z"
        /\ (Timed.start = "" /\ Timed.end # "") =>
              starttime = formatRFC3339(timeAdd(parseTime(Timed.end), 0 - ThreeHours))
        /\ (Timed.start # "" /\ Timed.end = "") => endtime = "2017-07-13T20:20:00Z"

\* only end was given, early in the day, and start is three hours before it, on
\* the day before
C15_Witness ==
    /\ timed # <<>>
    /\ Timed.start = "" /\ Timed.end = "2017-07-13T01:00:00Z"
    /\ starttime = "2017-07-12T22:00:00Z" /\ endtime = "2017-07-13T01:00:00Z"

\* the whole seconds of ms milliseconds, followed by "s"
WholeSeconds(ms) ==
    LET n == CHOOSE k \in 0..ms : k * 1000 <= ms /\ ms < (k + 1) * 1000
    IN ToString(n) \o "s"

\* C26: a timeout greater than zero is forwarded as its whole seconds
\* followed by "s", an unset timeout as the empty string; a configured step
\* is forwarded the same way, and no step is selected from the range then.
C26_TimeoutAndStepForwarded ==
    (timed # <<>> /\ Timed.stepped) =>
        /\ Timed.timeoutStr = IF timeout > 0 THEN WholeSeconds(timeout) ELSE ""
        /\ stepsize > 0 => Timed.stepStr = WholeSeconds(stepsize)

\* a step of 1.5s and a timeout of 2.5s on a range of 9 1/2 minutes, whose
\* selected step would be 60s
C26_Witness ==
    /\ timed # <<>> /\ Timed.stepped
    /\ Timed.start = "2017-07-13T20:10:30Z" /\ Timed.end = "2017-07-13T20:20:00Z"
    /\ stepsize = 1500 /\ timeout = 2500
    /\ autoStep(starttime, endtime) = 60
    /\ Timed.stepStr = "1s"
    /\ Timed.timeoutStr = "2s"

(***************************************************************************)
(* The commands (client.go:486-644)                                        *)
(***************************************************************************)

ErrMissingLabelName == "missing argument: label-name"
ErrMissingQuery == "missing argument: PromQL Query"

\* What a command run leaves behind and did: the package variables, the value
\* returned ("" is nil), the panic recoverAll caught ("" if none), the
\* storageInstance call made (Nil if not reached), the driver calls made, the
\* printer that got the response ("" if not reached); and, filled in by
\* runQuery, the driver operations called with their parameters, whether the
\* body of a response was closed and what the printer did.
Ran(g, st, en, ret, panic, instance, call, printer) ==
    [g |-> g, starttime |-> st, endtime |-> en, ret |-> ret, panic |-> panic,
     instance |-> instance, call |-> call, printer |-> printer,
     ops |-> <<>>, closed |-> FALSE, result |-> Nil, outputFormat |-> ""]

\* client.go:646-650
setDefaultOutputFormat(current, format) == IF current = "" THEN format ELSE current

\* the printer of a command on the response it was handed
runPrinter(printer, response, r) ==
    CASE printer = "printValues" -> printValues(response, r)
      [] printer = "printTable" -> printTable(response, r)
      [] printer = "printQueryResponse" -> printQueryResponse(response, r)

\* client.go:658-659: checkResponse closes the body of a 503 response
checkResponseCloses(err, response) == err = "" /\ response[1].StatusCode = 503

\* the element of a set of one element
Only(set) == CHOOSE x \in set : TRUE

\* client.go:497-499, 521-523, 541-543, 628-642: what a command does with
\* what the driver call returned; returnsErr is Query's
\* "if err != nil { return err }" followed by "defer resp.Body.Close()"
afterCall(inst, call, st, en, printer, returnsErr, ops, r) ==
    LET failed == checkResponse(call.err, call.response, inst.g.useGlobalKeystone) IN
    IF returnsErr /\ call.err # ""
    THEN [Ran(inst.g, st, en, call.err, "", Ptr(inst), Ptr(call), "")
             EXCEPT !.ops = ops]
    ELSE IF failed # ""
    THEN [Ran(inst.g, st, en, "", failed, Ptr(inst), Ptr(call), "")
             EXCEPT !.ops = ops,
                    !.closed = call.err = ""
                               /\ (returnsErr
                                   \/ checkResponseCloses(call.err, call.response))]
    ELSE Only({[Ran(inst.g, st, en, "", result.panic, Ptr(inst), Ptr(call), printer)
                   EXCEPT !.ops = ops, !.closed = result.closed, !.result = Ptr(result)] :
               result \in {runPrinter(printer, call.response[1], r)}})

\* client.go:493-496, 517-520, 537-540, 604-633: the driver call on the driver
\* storageInstance returned, if it returned one
afterInstance(inst, st, en, op, name, accept, printer, returnsErr, backend, params, r) ==
    IF inst.err # "" THEN Ran(inst.g, st, en, "", inst.err, Ptr(inst), Nil, "")
    ELSE Only({afterCall(inst, call, st, en, printer, returnsErr,
                         <<[op |-> op, params |-> params]>>, r) :
               call \in {driverCall(inst.g.storageDriver[1], op, name, params, accept,
                                    backend)}})

\* the part the commands share: storageInstance, one driver call, checkResponse
\* and the printer (client.go:493-501, 517-525, 537-545, 604-643)
runQuery(g, st, en, op, name, accept, printer, returnsErr, ks, backend, params, r) ==
    Only({afterInstance(inst, st, en, op, name, accept, printer, returnsErr, backend,
                        params, r) :
          inst \in {storageInstance(g, ks)}})

\* client.go:486-502
snapshot(g, st, en, sel, ks, backend, r) ==
    LET rr == [r EXCEPT !.outputFormat = setDefaultOutputFormat(r.outputFormat, "value")] IN
    [runQuery(g, st, en, "Federate", "", PlainText, "printValues", FALSE, ks, backend,
              [NoParams EXCEPT !.match = <<"{" \o sel \o "}">>], rr)
        EXCEPT !.outputFormat = rr.outputFormat]

\* client.go:504-526
labelValues(g, st, en, args, ks, backend, r) ==
    LET rr == [r EXCEPT !.outputFormat = setDefaultOutputFormat(r.outputFormat, "value")] IN
    [(IF Len(args) < 1 THEN Ran(g, st, en, ErrMissingLabelName, "", Nil, Nil, "")
      ELSE runQuery(g, st, en, "LabelValues", args[1], JSON, "printValues", FALSE,
                    ks, backend, NoParams, rr))
        EXCEPT !.outputFormat = rr.outputFormat]

\* client.go:528-546
series(g, st, en, sel, ks, backend, r) ==
    LET rr == [r EXCEPT !.outputFormat = setDefaultOutputFormat(r.outputFormat, "table")]
        range == defaultTimeRangeStr(st, en)
    IN [runQuery(g, range[1], range[2], "Series", "", JSON, "printTable", FALSE, ks,
                 backend,
                 [NoParams EXCEPT !.match = <<"{" \o sel \o "}">>,
                                  !.start = range[1], !.end = range[2]], rr)
           EXCEPT !.outputFormat = rr.outputFormat]

\* client.go:548-556
metricNames(g, st, en, ks, backend, r) ==
    labelValues(g, st, en, <<"__name__">>, ks, backend,
                [r EXCEPT !.outputFormat = setDefaultOutputFormat(r.outputFormat, "value")])

\* a variant of query that always sends the instant query
queryAlwaysInstant(g, st, en, args, ks, backend, r, q) ==
    LET rr == [r EXCEPT !.outputFormat = setDefaultOutputFormat(r.outputFormat, "json")] IN
    [(IF Len(args) < 1 THEN Ran(g, st, en, ErrMissingQuery, "", Nil, Nil, "")
      ELSE runQuery(g, st, en, "Query", "", JSON, "printQueryResponse", TRUE, ks,
                    backend,
                    [NoParams EXCEPT !.query = args[1], !.time = q.timestamp,
                                     !.timeout = timeoutStr(q.timeout)], rr))
        EXCEPT !.outputFormat = rr.outputFormat]

\* client.go:578-644
query(g, st, en, args, ks, backend, r, q) ==
    LET rr == [r EXCEPT !.outputFormat = setDefaultOutputFormat(r.outputFormat, "json")] IN
    [(IF Len(args) < 1 THEN Ran(g, st, en, ErrMissingQuery, "", Nil, Nil, "")
      ELSE IF st # "" \/ en # ""
      THEN LET range == defaultTimeRangeStr(st, en)
               ran == runQuery(g, st, en, "QueryRange", "", JSON, "printQueryResponse",
                               TRUE, ks, backend,
                               [NoParams EXCEPT
                                   !.query = args[1],
                                   !.start = range[1], !.end = range[2],
                                   !.step = stepStr(q.stepsize, range[1], range[2]),
                                   !.timeout = timeoutStr(q.timeout)], rr)
           IN \* client.go:604 comes before client.go:610
              IF ran.instance[1].err # "" THEN ran
              ELSE [ran EXCEPT !.starttime = range[1], !.endtime = range[2]]
      ELSE runQuery(g, st, en, "Query", "", JSON, "printQueryResponse", TRUE, ks,
                    backend,
                    [NoParams EXCEPT !.query = args[1], !.time = q.timestamp,
                                     !.timeout = timeoutStr(q.timeout)], rr))
        EXCEPT !.outputFormat = rr.outputFormat]

(***************************************************************************)
(* Spec: commands run one after another in one process, as the tests and   *)
(* the examples of the package run them.                                   *)
(***************************************************************************)

\* commands run in one process
MaxCommands == 2

\* what the backend of the model does with a request
Backends ==
    {TransportFailure,
     Response(200, "200 OK", JSON, ValuesBody),
     Response(200, "200 OK", PlainText, MetricsBody),
     Response(500, "500 Internal Server Error", PlainText, "out of memory"),
     Response(503, "503 Service Unavailable", PlainText, "global keystone not configured")}

\* the value of --selector: its default (client.go:769, 777)
Selectors == {""}

\* the flags of the query command, as one value
QuerySpec == [timestamp |-> timestamp, timeout |-> timeout, stepsize |-> stepsize]

Init ==
    /\ InitCommon
    /\ InitQueryFlags
    /\ InitRenderFlags
    /\ authType \in {"", "token"}
    /\ scopedDomain = ""
    /\ maiaURL \in {"", "http://maia:9091"}
    /\ promURL \in {"", "http://prometheus:9090"}
    /\ useGlobalKeystone \in BOOLEAN
    /\ env = NoEnv
    /\ \E range \in {<<"", "">>, <<"2017-07-13T20:10:30Z", "">>,
                     <<"", "2017-07-13T20:15:00Z">>} :
        /\ starttime = range[1]
        /\ endtime = range[2]
    /\ \E ie \in {"", "http://keystone:5000/v3"},
          ui \in {"", "testid"}, pw \in {"testwd"}, tk \in {"", "ABC"},
          se \in {""} :
        auth = [IdentityEndpoint |-> ie,
                Username |-> "testname", UserID |-> ui, Password |-> pw,
                DomainID |-> "", DomainName |-> "", TokenID |-> tk,
                ApplicationCredentialID |-> "",
                ApplicationCredentialName |-> "testappcredname",
                ApplicationCredentialSecret |-> se,
                Scope |-> Ptr(NewScope)]

\* the state after a command ran, and what the run did
Command(name, r) ==
    LET inst == r.instance
        fetch == IF inst = Nil THEN Nil ELSE inst[1].fetch
    IN
    /\ nCommands < MaxCommands
    /\ nCommands' = nCommands + 1
    /\ auth' = r.g.auth
    /\ authType' = r.g.authType
    /\ maiaURL' = r.g.maiaURL
    /\ storageDriver' = r.g.storageDriver
    /\ outputFormat' = r.outputFormat
    /\ starttime' = r.starttime
    /\ endtime' = r.endtime
    /\ last' = IF fetch = Nil THEN last ELSE <<[entry |-> Globals, res |-> fetch[1]]>>
    /\ authCount' = authCount + (IF fetch = Nil THEN 0 ELSE Len(fetch[1].options))
    /\ driversBuilt' = driversBuilt + (IF inst = Nil THEN 0 ELSE inst[1].built)
    /\ run' = <<[cmd |-> name,
                 ret |-> r.ret,
                 panic |-> r.panic,
                 printer |-> r.printer,
                 driverAtEntry |-> storageDriver,
                 tokenAtEntry |-> auth.TokenID,
                 maiaURLAtEntry |-> maiaURL,
                 instanceCalls |-> Len(inst),
                 fetchCalls |-> Len(fetch),
                 fetchOutcome |-> IF fetch = Nil THEN "" ELSE fetch[1].outcome,
                 fetchErr |-> IF fetch = Nil THEN "" ELSE fetch[1].err,
                 authCalls |-> IF fetch = Nil THEN 0 ELSE Len(fetch[1].options),
                 driverCalls |-> Len(r.call),
                 request |-> IF r.call = Nil THEN Nil ELSE r.call[1].request,
                 startAtEntry |-> starttime,
                 endAtEntry |-> endtime,
                 instanceErr |-> IF inst = Nil THEN "" ELSE inst[1].err,
                 ops |-> r.ops,
                 response |-> IF r.call = Nil THEN Nil ELSE r.call[1].response,
                 closed |-> r.closed,
                 result |-> r.result]>>
    /\ UNCHANGED <<scopedDomain, promURL, useGlobalKeystone, env, resp, checked,
                   queryFlags, jsonTemplate, columns, separator, outcomes,
                   storage>>

Snapshot ==
    \E ks \in KsResponses, backend \in Backends, sel \in Selectors :
        \E ran \in {snapshot(Globals, starttime, endtime, sel, ks, backend, RenderSpec)} :
            Command("snapshot", ran)

LabelValues ==
    \E ks \in KsResponses, backend \in Backends, args \in {<<>>, <<"component">>} :
        \E ran \in {labelValues(Globals, starttime, endtime, args, ks, backend, RenderSpec)} :
            Command("label-values", ran)

Series ==
    \E ks \in KsResponses, backend \in Backends, sel \in Selectors :
        \E ran \in {series(Globals, starttime, endtime, sel, ks, backend, RenderSpec)} :
            Command("series", ran)

MetricNames ==
    \E ks \in KsResponses, backend \in Backends :
        \E ran \in {metricNames(Globals, starttime, endtime, ks, backend, RenderSpec)} :
            Command("metric-names", ran)

Query ==
    \E ks \in KsResponses, backend \in Backends, args \in {<<>>, <<"up">>} :
        \E ran \in {query(Globals, starttime, endtime, args, ks, backend, RenderSpec, QuerySpec)} :
            Command("query", ran)

Next == Snapshot \/ LabelValues \/ Series \/ MetricNames \/ Query

Spec == Init /\ [][Next]_vars

(***************************************************************************)
(* Claims about command runs (checked under Spec)                          *)
(***************************************************************************)

Ran1 == run[1]
HasRun == run # <<>>
BuiltInRun == HasRun /\ Ran1.driverAtEntry = Nil /\ Ran1.instanceCalls = 1
RequestHeaders == Ran1.request[1].headers

\* C4: in every run of a command, if credential validation fails (a mandatory
\* field is missing or fields are ambiguous), Authenticate is not called and no
\* backend query operation is invoked in that run.
C4_ValidationFailurePreventsCalls ==
    (HasRun /\ Ran1.fetchCalls = 1 /\ Ran1.fetchOutcome = "panic"
        /\ Ran1.fetchErr \in ValidationErrors)
    => /\ Ran1.authCalls = 0
       /\ Ran1.driverCalls = 0
       /\ Ran1.request = Nil
       /\ Ran1.panic = Ran1.fetchErr
       /\ storageDriver = Nil

\* an ambiguous user stopped the second command of a process before any call
C4_Witness ==
    /\ HasRun /\ nCommands = 2
    /\ Ran1.fetchErr = ErrUserAmbiguous
    /\ Ran1.authCalls = 0 /\ Ran1.driverCalls = 0
    /\ authCount = 0

\* C6 as stated: over any sequence of storageInstance calls in one process the
\* backend session is built at most once and Authenticate is invoked at most
\* once.
C6_AtMostOneAuthenticate ==
    driversBuilt <= 1 /\ authCount <= 1

\* C6 as the code has it: the backend session is built at most once, one
\* storageInstance call invokes Authenticate at most once, and once a call has
\* returned a driver every later call returns that driver with no
\* authentication and no change to token or backend URL; calls that fail
\* before a driver exists each authenticate again.
C6_MemoizedOnceBuilt ==
    /\ driversBuilt <= 1
    /\ (storageDriver = Nil) = (driversBuilt = 0)
    /\ HasRun => Ran1.authCalls <= 1
    /\ (HasRun /\ Ran1.driverAtEntry # Nil) =>
          /\ storageDriver = Ran1.driverAtEntry
          /\ Ran1.fetchCalls = 0 /\ Ran1.authCalls = 0
          /\ auth.TokenID = Ran1.tokenAtEntry
          /\ maiaURL = Ran1.maiaURLAtEntry

\* a second command used the driver the first built after authenticating
C6_Witness ==
    /\ HasRun /\ nCommands = 2
    /\ Ran1.driverAtEntry # Nil /\ Ran1.instanceCalls = 1 /\ Ran1.request # Nil
    /\ authCount = 1 /\ driversBuilt = 1
    /\ auth.TokenID = KsOK.token

\* C7: storageInstance chooses its branch by strict precedence: with a direct
\* Prometheus URL it connects directly, never calls Authenticate and attaches
\* no auth-token header, even when an identity endpoint is configured too;
\* otherwise, with an identity endpoint, it runs credential resolution and
\* connects to the Maia URL; otherwise it fails with a configuration error.
C7_BranchPrecedence ==
    BuiltInRun =>
        IF promURL # ""
        THEN /\ Ran1.fetchCalls = 0 /\ Ran1.authCalls = 0
             /\ storageDriver = Ptr(NewPrometheusDriver(promURL, directHeaders(Globals)))
             /\ "X-Auth-Token" \notin DOMAIN storageDriver[1].customHeaders
             /\ Ran1.request # Nil => "X-Auth-Token" \notin DOMAIN RequestHeaders
             /\ auth.TokenID = Ran1.tokenAtEntry
        ELSE IF auth.IdentityEndpoint # ""
        THEN /\ Ran1.fetchCalls = 1
             /\ IF Ran1.fetchOutcome \in {"panic", "authfailed"}
                THEN storageDriver = Nil /\ Ran1.panic = Ran1.fetchErr
                     /\ Ran1.driverCalls = 0
                ELSE storageDriver = Ptr(NewPrometheusDriver(maiaURL, maiaHeaders(Globals)))
        ELSE /\ Ran1.panic = ErrNoBackend
             /\ storageDriver = Nil
             /\ Ran1.fetchCalls = 0 /\ Ran1.driverCalls = 0

\* both a Prometheus URL and an identity endpoint are configured, and a request
\* went out on the direct connection
C7_Witness ==
    /\ BuiltInRun
    /\ promURL # "" /\ auth.IdentityEndpoint # ""
    /\ Ran1.request # Nil /\ Ran1.authCalls = 0
    /\ Ran1.request[1].url = promURL \o "/federate?match%5B%5D=%7B%7D"

\* C8: every request sent through a driver built by storageInstance carries
\* X-Global-Region: true if and only if the global flag was set when the driver
\* was built, on the direct and on the gateway path, and on the gateway path
\* every request carries X-Auth-Token equal to the token held after credential
\* resolution.
C8_RequestHeaders ==
    (HasRun /\ Ran1.request # Nil) =>
        /\ IF useGlobalKeystone
           THEN "X-Global-Region" \in DOMAIN RequestHeaders
                /\ RequestHeaders["X-Global-Region"] = <<"true">>
           ELSE "X-Global-Region" \notin DOMAIN RequestHeaders
        /\ promURL = "" =>
              /\ "X-Auth-Token" \in DOMAIN RequestHeaders
              /\ RequestHeaders["X-Auth-Token"] = <<auth.TokenID>>

\* the second request of a process on the gateway path, with the global flag
\* set and the token Authenticate returned
C8_Witness ==
    /\ HasRun /\ nCommands = 2 /\ Ran1.driverAtEntry # Nil
    /\ Ran1.request # Nil
    /\ useGlobalKeystone /\ promURL = ""
    /\ HeaderGet(RequestHeaders, "X-Global-Region") = "true"
    /\ HeaderGet(RequestHeaders, "X-Auth-Token") = KsOK.token

\* the driver operations a run called, and the operation of each command
Ops == Ran1.ops
ArgsOK == Ran1.ret \notin {ErrMissingLabelName, ErrMissingQuery}
SessionOK == Ran1.instanceCalls = 1 /\ Ran1.instanceErr = ""
OpOf(cmd) ==
    CASE cmd = "snapshot" -> "Federate"
      [] cmd = "series" -> "Series"
      [] cmd \in {"label-values", "metric-names"} -> "LabelValues"
      [] cmd = "query" ->
           IF Ran1.startAtEntry # "" \/ Ran1.endAtEntry # "" THEN "QueryRange" ELSE "Query"

\* C14: every command run calls at most one driver operation, and exactly one
\* when its arguments are there and storageInstance returned a driver; the
\* operation is the one of the command, and query calls QueryRange if and
\* only if start or end is non-empty, else Query.
C14_OneBackendCall ==
    HasRun =>
        /\ Len(Ops) <= 1
        /\ Ran1.driverCalls = Len(Ops)
        /\ (Len(Ops) = 1) = (ArgsOK /\ SessionOK)
        /\ Len(Ops) = 1 => Ops[1].op = OpOf(Ran1.cmd)

\* a query with a start, no end and no step sent one QueryRange with the end
\* set to now and the step of the ladder
C14_Witness ==
    /\ HasRun /\ Ran1.cmd = "query"
    /\ Ran1.startAtEntry = "2017-07-13T20:10:30Z" /\ Ran1.endAtEntry = ""
    /\ Len(Ops) = 1 /\ Ops[1].op = "QueryRange"
    /\ Ops[1].params.end = "2017-07-13T20:20:00Z"
    /\ Ops[1].params.step = "60s"
    /\ Ran1.request # Nil
    /\ Ran1.request[1].url =
           "http://prometheus:9090/api/v1/query_range?end=2017-07-13T20%3A20%3A00Z"
           \o "&query=up&start=2017-07-13T20%3A10%3A30Z&step=60s"

\* C16 as stated: whenever a command obtained a response from the backend,
\* its body is closed when the command returns, whatever the status, the
\* format, the content type and the body.
C16_BodyClosed ==
    (HasRun /\ Ran1.response # Nil) => Ran1.closed

\* C17 as stated: a command that detected an error (a panic reached
\* recoverAll) returns an error.
C17_ErrorIsReturned ==
    (HasRun /\ Ran1.panic # "") => Ran1.ret # ""

\* storageInstance was called in the run and panicked
InstanceFailed == HasRun /\ Ran1.instanceCalls = 1 /\ Ran1.instanceErr # ""

\* C30: when storageInstance fails (no backend configured, credentials
\* that do not validate, or authentication refused), no session is
\* memoized: storageDriver stays unset, the Maia URL is the one before the
\* call, and no query is sent to the backend.
C30_NoSessionOnFailure ==
    InstanceFailed =>
        /\ Ran1.driverAtEntry = Nil
        /\ storageDriver = Nil
        /\ maiaURL = Ran1.maiaURLAtEntry
        /\ Ran1.driverCalls = 0
        /\ Ran1.request = Nil
        /\ Ran1.response = Nil

\* the identity service refused the credentials of a command that had no
\* Maia URL configured
C30_Witness ==
    /\ InstanceFailed
    /\ Ran1.fetchOutcome = "authfailed"
    /\ Ran1.authCalls = 1
    /\ Ran1.maiaURLAtEntry = ""
    /\ storageDriver = Nil
    /\ maiaURL = ""


(***************************************************************************)
(* SpecRender: the printers on every response, format, column list and     *)
(* separator of the model, called directly and through their commands on   *)
(* a direct Prometheus connection (client.go:486-556, 578-644).            *)
(***************************************************************************)

\* the run of a command whose backend answers with response
commandRun(name, response) ==
    LET backend == [err |-> "", response |-> Ptr(response)] IN
    CASE name = "snapshot" ->
           snapshot(Globals, starttime, endtime, "", KsOK, backend, RenderSpec)
      [] name = "label-values" ->
           labelValues(Globals, starttime, endtime, <<"component">>, KsOK, backend,
                       RenderSpec)
      [] name = "metric-names" ->
           metricNames(Globals, starttime, endtime, KsOK, backend, RenderSpec)
      [] name = "series" ->
           series(Globals, starttime, endtime, "", KsOK, backend, RenderSpec)
      [] name = "query" ->
           query(Globals, starttime, endtime, <<"up">>, KsOK, backend, RenderSpec,
                 QuerySpec)

\* a command of the client is run on a response
RenderCommand ==
    /\ run = <<>>
    /\ printed = <<>>
    /\ \E response \in RenderInputs,
          name \in {"snapshot", "label-values", "metric-names", "series", "query"} :
          \E ran \in {commandRun(name, response)} : Command(name, ran)

NextRender == PrintValues \/ PrintTable \/ PrintQueryResponse \/ RenderCommand

SpecRender == InitRender /\ [][NextRender]_vars

\* the printer of each command (client.go:499, 523, 543, 555, 641)
CommandPrinter(cmd) ==
    CASE cmd \in {"snapshot", "label-values", "metric-names"} -> "printValues"
      [] cmd = "series" -> "printTable"
      [] cmd = "query" -> "printQueryResponse"

\* what a printer does with a response whose body it read, under the format
\* in force: printValues passes plain text through exactly for the format
\* value and fails every other format as unsupported; printTable passes plain
\* text through for every format; printQueryResponse fails plain text as an
\* unsupported response type; all fail a response that is neither
\* application/json nor plain text as an unsupported response type
PrinterRule(printer, response, result, format) ==
    LET plain == hasPrefixTextPlain(response.ContentType)
        passed == result.panic = "" /\ result.out = <<response.Body>>
        failedFormat == result.panic = ErrUnsupportedFormat(format) /\ result.out = <<>>
        failedType == /\ result.panic = ErrUnsupportedType(response.ContentType)
                      /\ result.out = <<>>
    IN response.readErr = "" =>
        /\ (printer = "printValues" /\ plain /\ equalFold(format, "value")) => passed
        /\ (printer = "printValues" /\ plain /\ ~equalFold(format, "value")) => failedFormat
        /\ (printer = "printTable" /\ plain) => passed
        /\ (printer = "printQueryResponse" /\ plain) => failedType
        /\ (~plain /\ response.ContentType # JSON) => failedType

\* C18, amended: once the body was read, the renderer of snapshot,
\* label-values and metric-names (printValues) passes a plain-text response
\* through exactly for the format value and fails every other format with
\* the unsupported-format error; the renderer of series (printTable) passes
\* a plain-text response through for every format; the renderer of query
\* (printQueryResponse) fails a plain-text response, for every format, with
\* the unsupported-response-type error; and all three fail a response that
\* is neither application/json nor plain text with the
\* unsupported-response-type error.  The format is the one in force: the
\* default of the command when --format is not given.
C18_PlainTextPerCommand ==
    /\ Rendered =>
          PrinterRule(printed[1].printer, printed[1].response, printed[1].result,
                      outputFormat)
    /\ HasRun =>
          /\ Ran1.result # Nil
          /\ Ran1.printer = CommandPrinter(Ran1.cmd)
          /\ Ran1.panic = Ran1.result[1].panic
          /\ PrinterRule(Ran1.printer, Ran1.response[1], Ran1.result[1], outputFormat)

\* snapshot --format json was answered in plain text and failed with the
\* unsupported-format error
C18_Witness ==
    /\ HasRun /\ Ran1.cmd = "snapshot"
    /\ Ran1.printer = "printValues"
    /\ Ran1.response[1].ContentType = PlainText
    /\ Ran1.response[1].Body = MetricsBody
    /\ Ran1.response[1].readErr = ""
    /\ outputFormat = "json"
    /\ Ran1.panic = "unsupported --format value for this command: json"
    /\ Ran1.result[1].out = <<>>

(***************************************************************************)
(* SpecRange: the query command as a range query against a Prometheus      *)
(* that answers with a matrix, on the --step, --format, --columns and      *)
(* --separator values of the model (client.go:578-644, 386-453).           *)
(***************************************************************************)

\* what the backend answers to a range query
RangeBackends ==
    {Response(200, "200 OK", JSON, MatrixBody),
     Response(200, "200 OK", JSON, VectorBody)}

InitRange ==
    /\ InitCommon
    /\ auth = DefaultAuth
    /\ authType = ""
    /\ scopedDomain = ""
    /\ maiaURL = ""
    /\ promURL = "http://prometheus:9090"
    /\ useGlobalKeystone = FALSE
    /\ env = NoEnv
    /\ timestamp = ""
    /\ timeout = 0
    /\ starttime = "2017-07-13T20:10:30Z"
    /\ endtime \in {"2017-07-13T20:12:30Z", "2017-07-13T20:15:00Z", "2017-07-13T20:20:00Z"}
    /\ stepsize \in {0, 30000, 300000}
    /\ outputFormat \in {"table", "TaBle", "json"}
    /\ jsonTemplate = ""
    /\ columns \in ColumnLists
    /\ separator \in {" ", ";"}

\* client.go:578-644 with --start and --end given
QueryRange ==
    \E backend \in RangeBackends :
        \E ran \in {query(Globals, starttime, endtime, <<"up">>, KsOK, backend,
                          RenderSpec, QuerySpec)} :
            Command("query", ran)

NextRange == QueryRange

SpecRange == InitRange /\ [][NextRange]_vars

\* a range query answered with a matrix was rendered as a table
RangeTable ==
    /\ HasRun
    /\ Ran1.ops # <<>> /\ Ran1.ops[1].op = "QueryRange"
    /\ Ran1.response # Nil /\ Ran1.response[1].Body = MatrixBody
    /\ Ran1.result # Nil /\ Ran1.result[1].panic = ""
    /\ toLower(outputFormat) = "table"

\* the step the range query sent to the backend, in milliseconds
SentStep ==
    1000 * (CHOOSE n \in {sizes[i] : i \in 1..Len(sizes)} :
                Ran1.ops[1].params.step = ToString(n) \o "s")

\* name is the multiple of step at or before the sample, less than a step
\* before it
AlignedTo(name, sample, step) ==
    LET at == SecondNamed(name) * 1000
        of == sample.ts.sec * 1000 + sample.ts.ms
    IN /\ sample.ts.day = 0
       /\ at % step = 0
       /\ at <= of
       /\ of < at + step

\* C27 as stated: in every range query rendered as a table, the timestamp
\* columns are aligned by the step that was sent to the backend, configured
\* or selected from the range: every timestamp column is a multiple of that
\* step, and names the samples of the step that begins with it.
C27_ColumnsAlignedToSentStep ==
    RangeTable =>
        LET matrix == jsonOf(Ran1.response[1].Body).data IN
        \E names \in SUBSET TimestampNames :
            /\ \A sample \in Samples(matrix) :
                   \E name \in names : AlignedTo(name, sample, SentStep)
            /\ \A name \in names :
                   \E sample \in Samples(matrix) : AlignedTo(name, sample, SentStep)
            /\ Ran1.result[1].out[1] =
                   joinFields(LabelColumns(LabelKeys(matrix)) \o Ascending(names), separator)


(***************************************************************************)
(* SpecStorage: a Prometheus storage client constructed under every        *)
(* setting of maia.proxy and maia.federate_url, and the URL it builds for  *)
(* a call (prometheus.go:27-62, 114-138).                                  *)
(***************************************************************************)

\* the paths of the calls of the driver (prometheus.go:64-105)
Paths ==
    {"/api/v1/query", "/api/v1/query_range", "/api/v1/series", "/api/v1/labels",
     "/federate"}

InitStorage ==
    /\ InitQueryFlags
    /\ InitRenderFlags
    /\ auth = DefaultAuth
    /\ authType = ""
    /\ scopedDomain = ""
    /\ maiaURL = ""
    /\ promURL \in {"http://prometheus:9090", "http://maia:9091", "http://maia-catalog:9091"}
    /\ useGlobalKeystone = FALSE
    /\ env = NoEnv
    /\ starttime = ""
    /\ endtime = ""
    /\ storageDriver = Nil
    /\ last = <<>>
    /\ run = <<>>
    /\ nCommands = 0
    /\ authCount = 0
    /\ driversBuilt = 0
    /\ resp = <<>>
    /\ checked = <<>>
    /\ timed = <<>>
    /\ printed = <<>>
    /\ viper \in [proxy : {Nil, Ptr("http://proxy:3128")},
                  federate_url : {Nil, Ptr("http://federate:9090")}]
    /\ client = <<>>

\* what SpecStorage leaves alone
storageUnchanged ==
    UNCHANGED <<auth, authType, scopedDomain, maiaURL, promURL, useGlobalKeystone, env,
                storageDriver, starttime, endtime, last, run, nCommands, authCount,
                driversBuilt, resp, checked, queryFlags, renderFlags, outcomes, viper>>

\* prometheus.go:27-38: Prometheus(prometheusAPIURL, customHeaders)
NewClient ==
    /\ client = <<>>
    /\ \E customHeaders \in {EmptyMap, MapPut(EmptyMap, "X-Auth-Token", "ABC")} :
          client' = <<[promCli |-> prometheusStorageClient(promURL, customHeaders, viper),
                       built |-> Nil]>>
    /\ storageUnchanged

\* prometheus.go:114-138: buildURL(path, params) on the client constructed
BuildURL ==
    /\ client # <<>>
    /\ client[1].built = Nil
    /\ \E path \in Paths, params \in {NoParams, [NoParams EXCEPT !.match = <<"{}">>],
                                      [NoParams EXCEPT !.match = <<"{job=\"maia\"}">>,
                                                       !.start = "2017-07-13T20:10:30Z"]} :
          \E b \in {buildURL(client[1].promCli, path, params)} :
              client' = <<[client[1] EXCEPT
                             !.built = Ptr([path |-> path, panic |-> b.panic,
                                            url |-> IF b.url = Nil THEN ""
                                                    ELSE urlString(b.url[1])])]>>
    /\ storageUnchanged

NextStorage == NewClient \/ BuildURL

SpecStorage == InitStorage /\ [][NextStorage]_vars

\* C28 as stated: after a Prometheus storage client is constructed, under
\* every setting (maia.proxy set or not, maia.federate_url set or not), both
\* its HTTP client and its federate URL are initialised, the federate URL
\* being maia.federate_url when that is set and the base URL otherwise.
C28_ClientInitialised ==
    client # <<>> =>
        LET promCli == client[1].promCli IN
        /\ promCli.httpClient # Nil
        /\ promCli.federateURL # Nil
        /\ promCli.federateURL = IF viper.federate_url # Nil THEN viper.federate_url
                                  ELSE promCli.url

====
